---- MODULE Spec2Model ----
(***************************************************************************)
(* GodEye dashboard: the search page (dashboard/static/js/app.js) and the  *)
(* results page (dashboard/static/js/results.js) of one browser tab, and   *)
(* the localStorage they share.                                            *)
(*                                                                         *)
(* JavaScript runs to completion between awaits and timer callbacks, so    *)
(* each action below is one such run: an event handler or callback up to   *)
(* its next await (or its end), with everything it calls.                  *)
(***************************************************************************)
EXTENDS Integers, Sequences, FiniteSets, TLC

VARIABLES
    page,       \* the document loaded in the tab: "search" or "results"
    storage,    \* localStorage: key -> item (the stored text, or no item)
    now,        \* milliseconds since the oldest running submission started
    submitSeq,  \* number of validated submissions so far (the wall clock of line 546)
    formDisabled,   \* search page: the controls of #searchForm are disabled
    loadingShown,   \* search page: the loading overlay is displayed
    calls,      \* search page: the invocations of SearchHandler.handleSubmit
    navPending, \* the URL assigned to window.location.href, not yet loaded
    lastNav,    \* what caused the load of the current document
    rs,         \* results page: the state of the document
    probe,      \* the last call of a function made on its own, with its result
    health      \* search page: the health check that initialize starts

vars == <<page, storage, now, submitSeq, formDisabled, loadingShown, calls,
          navPending, lastNav, rs, probe, health>>

-----------------------------------------------------------------------------
(* Bounds of the model *)

\* validated submissions in one behaviour
MaxSubmits == 2
\* handleSubmit invocations that can be alive at once
MaxCalls == 2

-----------------------------------------------------------------------------
(* Program constants *)

TIMEOUT == 60000
LOADING_MIN_DURATION == 500
REDIRECT_DELAY == 800
MAX_QUERY_LENGTH == 500
COUNTDOWN_START == 3
RETRY_ATTEMPTS == 3

RESULTS_KEY == "godeyeResults"
QUERY_KEY == "lastQuery"
TYPE_KEY == "lastQueryType"
TIMESTAMP_KEY == "lastSearchTimestamp"
StorageKeys == {RESULTS_KEY, QUERY_KEY, TYPE_KEY, TIMESTAMP_KEY}

-----------------------------------------------------------------------------
(* JSON values.  Every value is a record with a kind; a number is kept in  *)
(* hundredths (0.79 is 79, 2 is 200).                                      *)

JUndefined == [kind |-> "undefined"]
JNull == [kind |-> "null"]
JBool(b) == [kind |-> "boolean", b |-> b]
JNum(n) == [kind |-> "number", n |-> n]
\* Infinity, the number a literal too large for a double (1e400) parses to
JInfinity == [kind |-> "number", n |-> 1, inf |-> TRUE]
JStr(s) == [kind |-> "string", s |-> s]
\* a string whose characters matter (a query): a sequence of one-character strings
JText(chars) == [kind |-> "string", chars |-> chars]
\* the ISO-8601 text of the instant n (Date.prototype.toISOString)
JDate(n) == [kind |-> "string", iso |-> n]
JArr(items) == [kind |-> "array", items |-> items]
JObj(fields) == [kind |-> "object", fields |-> fields]

\* v.name in JavaScript, for a v that is neither null nor undefined
Get(v, name) ==
    IF v.kind = "object" /\ name \in DOMAIN v.fields THEN v.fields[name]
    ELSE JUndefined

\* !!v
Truthy(v) ==
    CASE v.kind = "undefined" -> FALSE
      [] v.kind = "null" -> FALSE
      [] v.kind = "boolean" -> v.b
      [] v.kind = "number" -> v.n # 0
      [] v.kind = "string" ->
            IF "s" \in DOMAIN v THEN v.s # ""
            ELSE IF "chars" \in DOMAIN v THEN v.chars # <<>>
            ELSE TRUE
      [] OTHER -> TRUE

\* typeof v === 'object'
TypeofObject(v) == v.kind \in {"object", "array", "null"}

-----------------------------------------------------------------------------
(* localStorage items *)

NoItem == [kind |-> "none"]
\* JSON.stringify that leaves out the properties of an object that are null
ToJSONOmitsNull(v) ==
    IF v.kind # "object" THEN v
    ELSE JObj([f \in {g \in DOMAIN v.fields : v.fields[g].kind # "null"} |-> v.fields[f]])

\* the value of the document JSON.stringify(v) writes: a property whose value
\* is undefined is left out, and undefined in an array and a number that is not
\* finite are written as null
RECURSIVE ToJSON(_)
ToJSON(v) ==
    CASE v.kind = "object" ->
            JObj([f \in {g \in DOMAIN v.fields : v.fields[g].kind # "undefined"} |->
                    ToJSON(v.fields[f])])
      [] v.kind = "array" ->
            JArr([k \in 1..Len(v.items) |->
                    IF v.items[k].kind = "undefined" THEN JNull ELSE ToJSON(v.items[k])])
      [] v.kind = "number" -> IF "inf" \in DOMAIN v THEN JNull ELSE v
      [] OTHER -> v

\* the text JSON.stringify(v) produces
Stringify(v) == [kind |-> "json", of |-> ToJSON(v)]
\* a text that is not JSON
Garbage == [kind |-> "garbage"]
\* the empty text
EmptyText == [kind |-> "empty"]

\* JSON.parse(item): <<TRUE, value>>, or <<FALSE, _>> when it throws SyntaxError
JSONParse(item) ==
    IF item.kind = "json" THEN <<TRUE, item.of>> ELSE <<FALSE, JUndefined>>

\* item ? ... : ... on the text localStorage.getItem returned
ItemTruthy(item) == item.kind \in {"json", "garbage"}

-----------------------------------------------------------------------------
(* Strings as sequences of one-character strings, and CONFIG.PATTERNS *)

Digits == {"0", "1", "2", "3", "4", "5", "6", "7", "8", "9"}
Lower == {"a", "b", "c", "d", "e", "f", "g", "h", "i", "j", "k", "l", "m",
          "n", "o", "p", "q", "r", "s", "t", "u", "v", "w", "x", "y", "z"}
Upper == {"A", "B", "C", "D", "E", "F", "G", "H", "I", "J", "K", "L", "M",
          "N", "O", "P", "Q", "R", "S", "T", "U", "V", "W", "X", "Y", "Z"}
Alnum == Digits \cup Lower \cup Upper
\* \s
Whitespace == {" ", "\t", "\n"}
\* \w
WordChars == Alnum \cup {"_"}

Slice(s, i, j) == [k \in 1..(j - i + 1) |-> s[i + k - 1]]
AllIn(s, set) == \A k \in 1..Len(s) : s[k] \in set

\* String.prototype.trim
RECURSIVE TrimLeft(_)
TrimLeft(s) ==
    IF s # <<>> /\ Head(s) \in Whitespace THEN TrimLeft(Tail(s)) ELSE s
RECURSIVE TrimRight(_)
TrimRight(s) ==
    IF s # <<>> /\ s[Len(s)] \in Whitespace
    THEN TrimRight(Slice(s, 1, Len(s) - 1)) ELSE s
Trim(s) == TrimRight(TrimLeft(s))

\* the pieces of s between the occurrences of sep (s.split(sep))
RECURSIVE Split(_, _)
Split(s, sep) ==
    IF \A k \in 1..Len(s) : s[k] # sep THEN <<s>>
    ELSE LET i == CHOOSE k \in 1..Len(s) :
                      s[k] = sep /\ \A m \in 1..(k - 1) : s[m] # sep
         IN  <<Slice(s, 1, i - 1)>> \o Split(Slice(s, i + 1, Len(s)), sep)

\* 25[0-5]|2[0-4][0-9]|[01]?[0-9][0-9]?
Octet(s) ==
    /\ Len(s) \in 1..3
    /\ AllIn(s, Digits)
    /\ Len(s) = 3 =>
          \/ s[1] \in {"0", "1"}
          \/ s[1] = "2" /\ s[2] \in {"0", "1", "2", "3", "4"}
          \/ s[1] = "2" /\ s[2] = "5" /\ s[3] \in {"0", "1", "2", "3", "4", "5"}

PATTERN_IP(s) ==
    LET parts == Split(s, ".")
    IN  Len(parts) = 4 /\ \A k \in 1..4 : Octet(parts[k])

\* ^[^\s@]+@[^\s@]+\.[^\s@]+$
PATTERN_EMAIL(s) ==
    \E i \in 2..Len(s) : \E j \in (i + 2)..(Len(s) - 1) :
        /\ s[i] = "@"
        /\ s[j] = "."
        /\ \A k \in (1..Len(s)) \ {i} : s[k] \notin Whitespace \cup {"@"}

\* [a-z0-9](?:[a-z0-9-]{0,61}[a-z0-9])? with the i flag
DomainLabel(s) ==
    /\ Len(s) \in 1..63
    /\ s[1] \in Alnum /\ s[Len(s)] \in Alnum
    /\ AllIn(s, Alnum \cup {"-"})

\* [a-z0-9][a-z0-9-]{0,61}[a-z0-9] with the i flag
DomainLast(s) == Len(s) >= 2 /\ DomainLabel(s)

PATTERN_DOMAIN(s) ==
    LET parts == Split(s, ".")
    IN  /\ Len(parts) >= 2
        /\ \A k \in 1..(Len(parts) - 1) : DomainLabel(parts[k])
        /\ DomainLast(parts[Len(parts)])

UrlHostChars == Alnum \cup {"-", "@", ":", "%", ".", "_", "+", "~", "#", "="}
UrlTldChars == Alnum \cup {"(", ")"}
UrlTailChars == Alnum \cup {"-", "(", ")", "@", ":", "%", "_", "+", ".", "~",
                            "#", "?", "&", "/", "="}

\* [-a-zA-Z0-9@:%._\+~#=]{1,256}\.[a-zA-Z0-9()]{1,6}\b([-a-zA-Z0-9()@:%_\+.~#?&//=]*)$
UrlRest(r) ==
    \E d \in 2..Len(r) : \E e \in (d + 1)..Len(r) :
        /\ r[d] = "."
        /\ d - 1 <= 256
        /\ AllIn(Slice(r, 1, d - 1), UrlHostChars)
        /\ e - d \in 1..6
        /\ AllIn(Slice(r, d + 1, e), UrlTldChars)
        \* \b: a word character on exactly one side of the position after r[e]
        /\ (r[e] \in WordChars) # (e < Len(r) /\ r[e + 1] \in WordChars)
        /\ AllIn(Slice(r, e + 1, Len(r)), UrlTailChars)

HasPrefix(s, p) == Len(s) >= Len(p) /\ Slice(s, 1, Len(p)) = p

\* ^https?:\/\/(www\.)? and the rest
PATTERN_URL(s) ==
    LET http == <<"h", "t", "t", "p", ":", "/", "/">>
        https == <<"h", "t", "t", "p", "s", ":", "/", "/">>
        www == <<"w", "w", "w", ".">>
        AfterScheme(r) ==
            \/ UrlRest(r)
            \/ HasPrefix(r, www) /\ UrlRest(Slice(r, Len(www) + 1, Len(r)))
    IN  \/ HasPrefix(s, http) /\ AfterScheme(Slice(s, Len(http) + 1, Len(s)))
        \/ HasPrefix(s, https) /\ AfterScheme(Slice(s, Len(https) + 1, Len(s)))

\* CONFIG.PATTERNS[type.toUpperCase()]: the types that have a pattern
PatternTypes == {"domain", "ip", "email", "url"}

\* pattern.test(s) for the pattern of a type that has one
PatternTest(type, s) ==
    CASE type = "ip" -> PATTERN_IP(s)
      [] type = "email" -> PATTERN_EMAIL(s)
      [] type = "domain" -> PATTERN_DOMAIN(s)
      [] type = "url" -> PATTERN_URL(s)

-----------------------------------------------------------------------------
(* Validator *)

\* `Invalid ${type} format`
InvalidFormat(type) ==
    CASE type = "ip" -> "Invalid ip format"
      [] type = "email" -> "Invalid email format"
      [] type = "domain" -> "Invalid domain format"
      [] type = "url" -> "Invalid url format"

\* validateQuery without the test of the pattern
validateQueryNoFormat(query, type) ==
    LET trimmedQuery == Trim(query)
    IN  IF query = <<>>
        THEN [valid |-> FALSE, error |-> "Query must be a non-empty string"]
        ELSE IF Len(trimmedQuery) = 0
        THEN [valid |-> FALSE, error |-> "Query cannot be empty"]
        ELSE IF Len(trimmedQuery) > MAX_QUERY_LENGTH
        THEN [valid |-> FALSE, error |-> "Query is too long (max 500 characters)"]
        ELSE [valid |-> TRUE, query |-> trimmedQuery]

\* validateQuery that tests the pattern before the length
validateQueryFormatFirst(query, type) ==
    LET trimmedQuery == Trim(query)
    IN  IF query = <<>>
        THEN [valid |-> FALSE, error |-> "Query must be a non-empty string"]
        ELSE IF Len(trimmedQuery) = 0
        THEN [valid |-> FALSE, error |-> "Query cannot be empty"]
        ELSE IF type \in PatternTypes /\ ~PatternTest(type, trimmedQuery)
        THEN [valid |-> FALSE, error |-> InvalidFormat(type)]
        ELSE IF Len(trimmedQuery) > MAX_QUERY_LENGTH
        THEN [valid |-> FALSE, error |-> "Query is too long (max 500 characters)"]
        ELSE [valid |-> TRUE, query |-> trimmedQuery]

\* validateQuery that asks a query of type auto to match one of the patterns
validateQueryAutoDetects(query, type) ==
    LET trimmedQuery == Trim(query)
    IN  IF query = <<>>
        THEN [valid |-> FALSE, error |-> "Query must be a non-empty string"]
        ELSE IF Len(trimmedQuery) = 0
        THEN [valid |-> FALSE, error |-> "Query cannot be empty"]
        ELSE IF Len(trimmedQuery) > MAX_QUERY_LENGTH
        THEN [valid |-> FALSE, error |-> "Query is too long (max 500 characters)"]
        ELSE IF type = "auto" /\ \A t \in PatternTypes : ~PatternTest(t, trimmedQuery)
        THEN [valid |-> FALSE, error |-> "Invalid auto format"]
        ELSE IF type \in PatternTypes /\ ~PatternTest(type, trimmedQuery)
        THEN [valid |-> FALSE, error |-> InvalidFormat(type)]
        ELSE [valid |-> TRUE, query |-> trimmedQuery]

\* Validator.validateQuery(query, type), query a string
validateQuery(query, type) ==
    LET trimmedQuery == Trim(query)
    IN  IF query = <<>>
        THEN [valid |-> FALSE, error |-> "Query must be a non-empty string"]
        ELSE IF Len(trimmedQuery) = 0
        THEN [valid |-> FALSE, error |-> "Query cannot be empty"]
        ELSE IF Len(trimmedQuery) > MAX_QUERY_LENGTH
        THEN [valid |-> FALSE, error |-> "Query is too long (max 500 characters)"]
        ELSE IF type = "auto"
        THEN [valid |-> TRUE, query |-> trimmedQuery]
        ELSE IF type \in PatternTypes /\ ~PatternTest(type, trimmedQuery)
        THEN [valid |-> FALSE, error |-> InvalidFormat(type)]
        ELSE [valid |-> TRUE, query |-> trimmedQuery]

\* detectQueryType that tries the domain pattern first
detectQueryTypeDomainFirst(query) ==
    IF PATTERN_DOMAIN(query) THEN "domain"
    ELSE IF PATTERN_IP(query) THEN "ip"
    ELSE IF PATTERN_EMAIL(query) THEN "email"
    ELSE IF PATTERN_URL(query) THEN "url"
    ELSE "unknown"

\* Validator.detectQueryType(query)
detectQueryType(query) ==
    IF PATTERN_IP(query) THEN "ip"
    ELSE IF PATTERN_EMAIL(query) THEN "email"
    ELSE IF PATTERN_DOMAIN(query) THEN "domain"
    ELSE IF PATTERN_URL(query) THEN "url"
    ELSE "unknown"

-----------------------------------------------------------------------------
(* Inputs: what the user types, and what the backend and the stored text   *)
(* can be.                                                                 *)

LongQuery == [k \in 1..(MAX_QUERY_LENGTH + 1) |-> "a"]

\* the text of #q at the time of a submit
QueryInputs ==
    { <<>>,
      <<" ", " ">>,
      <<" ", "8", ".", "8", ".", "8", ".", "8", " ">>,
      <<"x", " ", "y">>,
      LongQuery }

\* the values of #typeSelector
QueryTypes == {"auto", "domain", "ip", "email", "url"}

Analytics ==
    JObj([total_entities |-> JNum(200), avg_confidence |-> JNum(79),
          source_count |-> JNum(100)])

Indicator(name, confidence) ==
    JObj([indicator |-> JStr(name), type |-> JStr("ip"),
          confidence |-> JNum(confidence), connections |-> JNum(300),
          source |-> JStr("dns")])

\* bodies that are an AnalysisResult with status success
SuccessBodies ==
    { JObj([status |-> JStr("success"), analytics |-> Analytics,
            results |-> JArr(<<Indicator("1.1.1.1", 90), Indicator("2.2.2.2", 40)>>)]),
      JObj([status |-> JStr("success"), analytics |-> Analytics,
            results |-> JArr(<<>>)]),
      \* success without analytics
      JObj([status |-> JStr("success"), results |-> JArr(<<>>)]),
      \* success with results: null
      JObj([status |-> JStr("success"), analytics |-> Analytics, results |-> JNull]),
      \* success whose results is an object, not a list
      JObj([status |-> JStr("success"), analytics |-> Analytics,
            results |-> JObj([count |-> JNum(0)])]),
      \* success whose list holds a null
      JObj([status |-> JStr("success"), analytics |-> Analytics,
            results |-> JArr(<<Indicator("1.1.1.1", 90), JNull>>)]) }

\* every JSON document the backend can answer with or the storage can hold
JsonBodies ==
    SuccessBodies \cup
    { JObj([status |-> JStr("error"), message |-> JStr("backend failed")]),
      JObj([status |-> JStr("error"), analytics |-> Analytics, results |-> JArr(<<>>)]),
      JObj([message |-> JStr("no status")]),
      JArr(<<>>),
      JNull,
      JStr("text") }

\* the texts a response body or a storage item can be
BodyTexts == {Stringify(v) : v \in JsonBodies} \cup {Garbage, EmptyText}

-----------------------------------------------------------------------------
(* StorageManager (app.js) *)

\* StorageManager.set that returns true although setItem threw
StorageSetReportsSuccess(store, key, value, ok) ==
    <<IF ok THEN [store EXCEPT ![key] = Stringify(value)] ELSE store, TRUE>>

\* StorageManager.set that leaves an item that is already there as it is
StorageSetKeepsExisting(store, key, value, ok) ==
    IF ok /\ store[key] = NoItem THEN <<[store EXCEPT ![key] = Stringify(value)], TRUE>>
    ELSE <<store, ok>>

\* StorageManager.set whose item is written although setItem threw
StorageSetWritesThenFails(store, key, value, ok) ==
    <<[store EXCEPT ![key] = Stringify(value)], ok>>

\* StorageManager.set(key, value) when localStorage.setItem succeeds (ok) or
\* throws, e.g. QuotaExceededError: <<the storage afterwards, the return value>>
StorageSet(store, key, value, ok) ==
    IF ok THEN <<[store EXCEPT ![key] = Stringify(value)], TRUE>>
    ELSE <<store, FALSE>>

-----------------------------------------------------------------------------
(* UIManager *)

\* disableForm that does not find the form and leaves the controls as they are
disableFormNotFound == formDisabled

\* the disabled flag of the form's controls after UIManager.disableForm
disableForm == TRUE

\* the disabled flag of the form's controls after UIManager.enableForm
enableForm == FALSE

\* whether the loading overlay is displayed after UIManager.showLoading
showLoading == TRUE

\* hideLoading that does not find the overlay and leaves it as it is
hideLoadingNotFound == loadingShown

\* whether the loading overlay is displayed after UIManager.hideLoading
hideLoading == FALSE

\* showNotification that only logs and appends no toast
showNotificationSilent(log, type) == log

\* UIManager.showNotification(message, type): a toast of this type is appended
\* to the toast container; log is what the invocation has done so far
showNotification(log, type) ==
    Append(log, IF type = "error" THEN "notifyError" ELSE "notifySuccess")

-----------------------------------------------------------------------------
(* SearchHandler.handleSubmit and APIClient.request *)

NoTimer == -1
NotYet == NoTimer

\* no invocation.  query and type are the trimmed text of #q and the value of
\* #typeSelector; start is Date.now() of line 552; timer is the instant the
\* pending timer of the invocation is due; results is the parsed response body;
\* log is what the invocation has done, in order; message is the text of the
\* error notification; outcome and settledAt are how and when (in ms after
\* start) APIClient.request settled; persistedAt and navAt are the instants of
\* the write of line 579 and of the assignment of line 591; stamp is the instant
\* written under lastSearchTimestamp and storedBefore the item under
\* godeyeResults when the submit came, kept until the invocation stores its
\* own; attempts counts the calls of fetch, statusText is the status text of
\* the non-2xx response whose body is read, and hiddenAt is when (in ms after
\* start) the catch block hid the loading overlay.
NoCall ==
    [pc |-> "none", query |-> <<>>, type |-> "auto", start |-> 0,
     timer |-> NoTimer, results |-> JUndefined, log |-> <<>>, message |-> "",
     outcome |-> "none", settledAt |-> NotYet, persistedAt |-> NotYet,
     navAt |-> NotYet, stamp |-> 0, storedBefore |-> NoItem, attempts |-> 0,
     statusText |-> "", hiddenAt |-> NotYet]

CallIds == 1..MaxCalls

\* the request of the invocation is in flight (APIClient.search has not settled)
InFlight(c) == c.pc \in {"fetching", "readingJson", "readingText"}

\* the invocation has not returned or still has a timer to fire
Running(c) == InFlight(c) \/ c.pc \in {"minWait", "redirecting"}

\* the invocation is over and the page stays: its slot can be taken again
Over(c) == c.pc \in {"none", "rejected", "failed"}

FreeSlot == CHOOSE i \in CallIds : Over(calls[i]) /\ \A j \in 1..(i - 1) : ~Over(calls[j])

\* the clock is kept only while an invocation other than i runs
ClockAfter(i) == IF \E j \in CallIds \ {i} : Running(calls[j]) THEN now ELSE 0

\* request that calls fetch again when an attempt fails, up to RETRY_ATTEMPTS
SettledRetries(c, outcome) ==
    [c EXCEPT !.outcome = outcome, !.settledAt = now - c.start, !.statusText = "",
              !.attempts = IF outcome # "data" /\ @ < RETRY_ATTEMPTS THEN @ + 1 ELSE @]

\* APIClient.request settles now for the invocation c: by returning data, with
\* the timeout error, or with another error; CONFIG.API.RETRY_ATTEMPTS is read
\* nowhere, and fetch is not called again
Settled(c, outcome) ==
    [c EXCEPT !.outcome = outcome, !.settledAt = now - c.start, !.statusText = ""]

\* the catch block of handleSubmit, lines 594-602, for an error with this
\* message, thrown in the invocation i whose record has become c; the storage
\* is as the statement that threw has left it
Caught(i, c, message) ==
    /\ loadingShown' = hideLoading
    /\ formDisabled' = enableForm
    /\ calls' = [calls EXCEPT ![i] =
            [c EXCEPT
                !.pc = "failed",
                !.timer = NoTimer,
                !.hiddenAt = now - c.start,
                !.message = IF message = "" THEN "Analysis failed. Please try again."
                            ELSE message,
                !.log = showNotification(@ \o <<"hideLoading", "enableForm">>, "error")]]
    /\ now' = ClockAfter(i)
    /\ UNCHANGED <<probe, health, page, submitSeq, navPending, lastNav, rs>>

\* an error thrown by a statement that does not write to the storage
Fail(i, c, message) ==
    /\ Caught(i, c, message)
    /\ UNCHANGED storage

\* the text of an Error made from a response field: a string as it is, anything
\* else converted by String()
MessageText(v) == IF v.kind = "string" /\ "s" \in DOMAIN v THEN v.s ELSE "String(message)"

\* lines 569-576 without the check of the status
ResponseErrorNoStatus(results) ==
    IF ~Truthy(results) \/ ~TypeofObject(results)
    THEN "Invalid response format from server"
    ELSE ""

\* lines 569-576: the message of the Error thrown for this response body, ""
\* when none is thrown
ResponseError(results) ==
    IF ~Truthy(results) \/ ~TypeofObject(results)
    THEN "Invalid response format from server"
    ELSE IF Get(results, "status") # JStr("success")
    THEN IF Truthy(Get(results, "message"))
         THEN MessageText(Get(results, "message"))
         ELSE "Analysis failed"
    ELSE ""

\* handleSubmit from line 567 on, in the invocation i whose record has become
\* c and holds the response body
AfterLoading(i, c) ==
    LET results == c.results
    IN  IF ResponseError(results) # ""
        THEN Fail(i, c, ResponseError(results))
        ELSE \E ok \in BOOLEAN :
                LET set == StorageSet(storage, RESULTS_KEY, results, ok)
                IN  IF ~set[2]
                    THEN /\ storage' = set[1]
                         /\ Caught(i, c, "Failed to store results. Check browser storage.")
                    ELSE /\ storage' = set[1]
                         /\ calls' = [calls EXCEPT ![i] =
                                [c EXCEPT !.pc = "redirecting",
                                          !.storedBefore = NoItem,
                                          !.timer = now + REDIRECT_DELAY,
                                          !.persistedAt = now,
                                          !.log = showNotification(Append(@, "persist"),
                                                                   "success")
                                                  \o <<"scheduleNav">>]]
                         /\ UNCHANGED <<probe, health, page, now, submitSeq, formDisabled,
                                        loadingShown, navPending, lastNav, rs>>

\* the submit event of #searchForm, which the browser delivers only while the
\* form's controls are enabled: handleSubmit up to its first await, with
\* APIClient.search and APIClient.request up to the await of fetch
Submit(raw, type) ==
    /\ page = "search"
    /\ health.formInitialized
    /\ ~formDisabled
    /\ \E i \in CallIds : Over(calls[i])
    /\ LET i == FreeSlot
           query == Trim(raw)
           validation == validateQuery(query, type)
       IN  IF ~validation.valid
           THEN /\ calls' = [calls EXCEPT ![i] =
                       [NoCall EXCEPT !.pc = "rejected",
                                      !.query = query,
                                      !.type = type,
                                      !.storedBefore = storage[RESULTS_KEY],
                                      !.message = validation.error,
                                      !.log = showNotification(<<>>, "error")]]
                /\ UNCHANGED <<probe, health, page, storage, now, submitSeq, formDisabled,
                               loadingShown, navPending, lastNav, rs>>
           ELSE /\ submitSeq < MaxSubmits
                \* lines 544-546; the three writes succeed, or localStorage
                \* refuses them all
                /\ \E ok \in BOOLEAN :
                     LET s1 == StorageSet(storage, QUERY_KEY, JText(validation.query), ok)[1]
                         s2 == StorageSet(s1, TYPE_KEY, JStr(type), ok)[1]
                         s3 == StorageSet(s2, TIMESTAMP_KEY, JDate(submitSeq + 1), ok)[1]
                     IN  storage' = s3
                /\ submitSeq' = submitSeq + 1
                /\ formDisabled' = disableForm
                /\ loadingShown' = showLoading
                /\ now' = ClockAfter(i)
                /\ calls' = [calls EXCEPT ![i] =
                       [NoCall EXCEPT !.pc = "fetching",
                                      !.query = validation.query,
                                      !.type = type,
                                      !.start = now',
                                      !.timer = now' + TIMEOUT,
                                      !.stamp = submitSeq + 1,
                                      !.storedBefore = storage[RESULTS_KEY],
                                      !.attempts = 1,
                                      !.outcome = "pending",
                                      !.log = <<"storeParams", "disableForm",
                                                "showLoading", "request">>]]
                /\ UNCHANGED <<probe, health, page, navPending, lastNav, rs>>

\* the timer of line 260 fires: controller.abort() rejects the pending fetch with
\* AbortError, and the catch of line 299 turns it into the timeout error
TimeoutFires(i) ==
    /\ page = "search"
    /\ calls[i].pc = "fetching"
    /\ calls[i].timer = now
    /\ Fail(i, Settled(calls[i], "timeout"), "Request timeout. Please try again.")

\* fetch rejects (no connection): the catch of line 299 rethrows the TypeError
FetchRejects(i) ==
    /\ page = "search"
    /\ calls[i].pc = "fetching"
    /\ Fail(i, Settled(calls[i], "error"), "Failed to fetch")

\* fetch resolves with the response's status line and headers: line 277 clears
\* the timer, and the body is awaited with response.text() or response.json()
FetchResolves(i, ok, statusText) ==
    /\ page = "search"
    /\ calls[i].pc = "fetching"
    /\ calls' = [calls EXCEPT ![i] =
           [@ EXCEPT !.pc = IF ok THEN "readingJson" ELSE "readingText",
                     !.statusText = statusText,
                     !.timer = NoTimer]]
    /\ UNCHANGED <<probe, health, page, storage, now, submitSeq, formDisabled, loadingShown,
                   navPending, lastNav, rs>>

\* the status texts of the responses: none (HTTP/2 has no reason phrase), or
\* the reason phrase of the status line; that of a 2xx response is only logged
StatusTexts(ok) == IF ok THEN {""} ELSE {"", "Internal Server Error"}

\* `HTTP ${response.status}: ${response.statusText}` for the status 500
HttpStatusMessage(statusText) == "HTTP 500: " \o statusText

\* lines 282-291 with the status message for every body that is not JSON
HttpErrorMessageStatusOnly(text, statusText) ==
    LET parsed == JSONParse(text)
    IN  IF ~parsed[1] THEN HttpStatusMessage(statusText)
        ELSE IF parsed[2].kind = "null"
        THEN "TypeError: Cannot read properties of null"
        ELSE IF Truthy(Get(parsed[2], "message"))
        THEN MessageText(Get(parsed[2], "message"))
        ELSE HttpStatusMessage(statusText)

\* lines 282-291: the message of the Error thrown for a non-2xx response with
\* this body and this status text.  A body that is not JSON stands in for the
\* message itself ("errorText" is that body), an empty body leaves the status
\* text as the message, and errorData.message of a body that is null throws a
\* TypeError, which line 308 rethrows
HttpErrorMessage(text, statusText) ==
    LET parsed == JSONParse(text)
        message == IF ~parsed[1]
                   THEN IF text # EmptyText THEN "errorText" ELSE statusText
                   ELSE IF Truthy(Get(parsed[2], "message"))
                   THEN MessageText(Get(parsed[2], "message"))
                   ELSE ""
    IN  IF parsed[1] /\ parsed[2].kind = "null"
        THEN "TypeError: Cannot read properties of null"
        ELSE IF message # "" THEN message
        ELSE HttpStatusMessage(statusText)

\* lines 281-297: what APIClient.request does with a response whose body has
\* arrived whole: it returns the parsed body of a 2xx response, and throws for
\* a 2xx body that is not JSON (response.json() rejects) and for every other
\* response
requestOutcome(ok, statusText, text) ==
    LET parsed == JSONParse(text)
    IN  IF ~ok
        THEN [returned |-> FALSE, data |-> JUndefined,
              message |-> HttpErrorMessage(text, statusText)]
        ELSE IF ~parsed[1]
        THEN [returned |-> FALSE, data |-> JUndefined,
              message |-> "SyntaxError: Unexpected token"]
        ELSE [returned |-> TRUE, data |-> parsed[2], message |-> ""]

\* the body of a non-2xx response has arrived: lines 282-291
ErrorBodyArrives(i, text) ==
    /\ page = "search"
    /\ calls[i].pc = "readingText"
    /\ Fail(i, Settled(calls[i], "error"),
            requestOutcome(FALSE, calls[i].statusText, text).message)

\* handleSubmit without the wait of lines 561-565
RemainingLoadingNone(elapsed) == 0

\* lines 560-565: how long handleSubmit still waits once the search has
\* returned after this many ms, 0 when it goes on at once
RemainingLoading(elapsed) ==
    IF elapsed < LOADING_MIN_DURATION THEN LOADING_MIN_DURATION - elapsed ELSE 0

\* the body of a 2xx response has arrived: response.json() settles, request and
\* search return, and handleSubmit goes on from line 560
BodyArrives(i, text) ==
    /\ page = "search"
    /\ calls[i].pc = "readingJson"
    /\ LET out == requestOutcome(TRUE, calls[i].statusText, text)
           elapsed == now - calls[i].start
           c == [Settled(calls[i], "data") EXCEPT !.results = out.data]
       IN  IF ~out.returned
           THEN Fail(i, Settled(calls[i], "error"), out.message)
           ELSE IF RemainingLoading(elapsed) > 0
           THEN /\ calls' = [calls EXCEPT ![i] =
                       [c EXCEPT !.pc = "minWait",
                                 !.timer = now + RemainingLoading(elapsed)]]
                /\ UNCHANGED <<probe, health, page, storage, now, submitSeq, formDisabled,
                               loadingShown, navPending, lastNav, rs>>
           ELSE AfterLoading(i, c)

\* the connection breaks while the body is read: text() or json() rejects
BodyFails(i) ==
    /\ page = "search"
    /\ calls[i].pc \in {"readingJson", "readingText"}
    /\ Fail(i, Settled(calls[i], "error"), "Failed to fetch")

\* the timer of line 563 fires
MinWaitFires(i) ==
    /\ page = "search"
    /\ calls[i].pc = "minWait"
    /\ calls[i].timer = now
    /\ AfterLoading(i, calls[i])

\* the timer of line 590 fires: window.location.href = 'results.html'
RedirectFires(i) ==
    /\ page = "search"
    /\ calls[i].pc = "redirecting"
    /\ calls[i].timer = now
    /\ calls' = [calls EXCEPT ![i] =
           [@ EXCEPT !.pc = "redirected", !.timer = NoTimer, !.navAt = now]]
    /\ navPending' = [to |-> "results", by |-> "redirect"]
    /\ now' = ClockAfter(i)
    /\ UNCHANGED <<probe, health, page, storage, submitSeq, formDisabled, loadingShown, lastNav, rs>>

\* the instants the model lets the backend answer at, in ms after a submit
TimePoints == {100, LOADING_MIN_DURATION, TIMEOUT, TIMEOUT + 1000}

Deadlines == {calls[i].timer : i \in {j \in CallIds : calls[j].timer # NoTimer}}

\* time passes, up to the next timer that is due
Tick ==
    /\ page = "search"
    /\ \E i \in CallIds : Running(calls[i])
    /\ \E t \in TimePoints \cup Deadlines :
         /\ t > now
         /\ \A d \in Deadlines : t <= d
         /\ now' = t
    /\ UNCHANGED <<probe, health, page, storage, submitSeq, formDisabled, loadingShown, calls,
                   navPending, lastNav, rs>>

-----------------------------------------------------------------------------
(* initialize and APIClient.healthCheck (app.js) *)

\* no search document is loaded.  attempts counts the calls of fetch; failure
\* is how APIClient.request failed; settled is how the promise of healthCheck
\* settled, and value what it was fulfilled with; log is what the callback of
\* lines 796-802 logged; formInitialized is whether SearchHandler.initialize
\* has attached the submit handler.
NoHealth ==
    [pc |-> "none", attempts |-> 0, statusText |-> "", failure |-> "none",
     settled |-> "pending", value |-> JUndefined, log |-> "none",
     formInitialized |-> FALSE]

\* the search document after initialize, lines 779-812: healthCheck has called
\* request, which awaits fetch, and SearchHandler.initialize has attached the
\* submit handler of the form
InitializeSearch ==
    [NoHealth EXCEPT !.pc = "fetching", !.attempts = 1, !.formInitialized = TRUE]

\* the synthetic value of line 330
Unhealthy == JObj([status |-> JStr("unhealthy")])

\* the callback of lines 796-802 on the value healthCheck was fulfilled with;
\* health.status of null throws a TypeError that nothing catches
healthCallback(value) ==
    IF value.kind \in {"null", "undefined"} THEN "threw"
    ELSE IF Get(value, "status") = JStr("healthy") THEN "success"
    ELSE "warn"

\* healthCheck without its catch block: the error of request is passed on
healthCheckRethrows(h, failure) ==
    [h EXCEPT !.pc = "settled", !.failure = failure, !.settled = "rejected"]

\* request failed in healthCheck: the catch block of lines 328-331 returns the
\* synthetic value, and the callback runs on it
healthCheckFailed(h, failure) ==
    [h EXCEPT !.pc = "settled", !.failure = failure, !.settled = "fulfilled",
              !.value = Unhealthy, !.log = healthCallback(Unhealthy)]

\* request returned data in healthCheck, line 327, and the callback runs on it
healthCheckReturns(h, data) ==
    [h EXCEPT !.pc = "settled", !.settled = "fulfilled", !.value = data,
              !.log = healthCallback(data)]

\* the bodies the health endpoint can answer with
HealthTexts ==
    { Stringify(JObj([status |-> JStr("healthy")])),
      Stringify(JObj([status |-> JStr("degraded")])),
      Stringify(JNull),
      Garbage,
      EmptyText }

\* the request of the health check fails: the timer of line 260 aborts the
\* pending fetch (it is due TIMEOUT ms after the document was loaded, an instant
\* the clock of the searches does not keep, so it can be any moment), fetch
\* rejects, or the connection breaks while the body is read
HealthRequestFails(failure) ==
    /\ page = "search"
    /\ \/ health.pc = "fetching"
       \/ health.pc \in {"readingJson", "readingText"} /\ failure = "network"
    /\ health' = healthCheckFailed(health, failure)
    /\ UNCHANGED <<probe, page, storage, now, submitSeq, formDisabled,
                   loadingShown, calls, navPending, lastNav, rs>>

\* fetch resolves for the health check with the status line and the headers
HealthFetchResolves(ok, statusText) ==
    /\ page = "search"
    /\ health.pc = "fetching"
    /\ health' = [health EXCEPT !.pc = IF ok THEN "readingJson" ELSE "readingText",
                                !.statusText = statusText]
    /\ UNCHANGED <<probe, page, storage, now, submitSeq, formDisabled,
                   loadingShown, calls, navPending, lastNav, rs>>

\* the body of the response to the health check has arrived: request throws
\* for a non-2xx response (line 291) and for a body that is not JSON (line
\* 294), and returns the parsed body otherwise
HealthBodyArrives(text) ==
    /\ page = "search"
    /\ health.pc \in {"readingJson", "readingText"}
    /\ LET out == requestOutcome(health.pc = "readingJson", health.statusText, text)
       IN  health' = IF out.returned THEN healthCheckReturns(health, out.data)
                     ELSE IF health.pc = "readingText"
                     THEN healthCheckFailed(health, "status")
                     ELSE healthCheckFailed(health, "unparsable")
    /\ UNCHANGED <<probe, page, storage, now, submitSeq, formDisabled,
                   loadingShown, calls, navPending, lastNav, rs>>

-----------------------------------------------------------------------------
(* Results page: StorageManager and DataManager (results.js) *)

\* StorageManager.hasResults()
hasResults(store) == ItemTruthy(store[RESULTS_KEY])

\* StorageManager.get(key): the parsed item, null for no item or a text that
\* does not parse
StorageGet(store, key) ==
    IF ~ItemTruthy(store[key]) THEN JNull
    ELSE LET parsed == JSONParse(store[key])
         IN  IF parsed[1] THEN parsed[2] ELSE JNull

\* DataManager.loadResults(): the stored results, null when there is none
loadResults(store) ==
    LET results == StorageGet(store, RESULTS_KEY)
    IN  IF ~Truthy(results) THEN JNull ELSE results

\* validateResults without the check of the status
validateResultsNoStatus(results) ==
    IF ~Truthy(results) \/ ~TypeofObject(results)
    THEN [valid |-> FALSE, error |-> "Invalid results format"]
    ELSE IF ~Truthy(Get(results, "analytics")) \/ ~Truthy(Get(results, "results"))
    THEN [valid |-> FALSE, error |-> "Incomplete results data"]
    ELSE [valid |-> TRUE, error |-> ""]

\* DataManager.validateResults(results)
validateResults(results) ==
    IF ~Truthy(results) \/ ~TypeofObject(results)
    THEN [valid |-> FALSE, error |-> "Invalid results format"]
    ELSE IF Get(results, "status") # JStr("success")
    THEN [valid |-> FALSE,
          error |-> IF Truthy(Get(results, "message"))
                    THEN MessageText(Get(results, "message"))
                    ELSE "Analysis failed"]
    ELSE IF ~Truthy(Get(results, "analytics")) \/ ~Truthy(Get(results, "results"))
    THEN [valid |-> FALSE, error |-> "Incomplete results data"]
    ELSE [valid |-> TRUE, error |-> ""]

\* a || b
OrElse(a, b) == IF Truthy(a) THEN a ELSE b

\* DataManager.getQueryInfo(results) on this storage at the instant clock;
\* results.query_info?.query is undefined when query_info is null or undefined
getQueryInfo(store, results, clock) ==
    LET info == Get(results, "query_info")
        Optional(name) == IF info.kind \in {"null", "undefined"} THEN JUndefined
                          ELSE Get(info, name)
    IN  [query |-> OrElse(StorageGet(store, QUERY_KEY),
                          OrElse(Optional("query"), JStr("Unknown"))),
         type |-> OrElse(StorageGet(store, TYPE_KEY),
                         OrElse(Optional("type"), JStr("auto"))),
         timestamp |-> OrElse(Get(results, "timestamp"),
                              OrElse(StorageGet(store, TIMESTAMP_KEY), JDate(clock)))]

-----------------------------------------------------------------------------
(* Results page: confidence *)

\* v || 0
OrZero(v) == IF Truthy(v) THEN v ELSE JNum(0)

\* v >= bound / 100 for a bound in hundredths: a number is compared as it is,
\* true as 1, and what converts to NaN (a text that is not a number, an object)
\* or to 0 (false, null, an empty list) is not greater
AtLeast(v, bound) ==
    \/ v.kind = "number" /\ ("inf" \in DOMAIN v \/ v.n >= bound)
    \/ v.kind = "boolean" /\ v.b /\ 100 >= bound

\* lines 439-451 of Renderer.renderAnalytics: the text of #riskLevel
riskLevel(analytics) ==
    LET confidence == OrZero(Get(analytics, "avg_confidence"))
    IN  IF AtLeast(confidence, 80) THEN "High"
        ELSE IF AtLeast(confidence, 50) THEN "Medium"
        ELSE "Low"

\* getConfidenceClass with > for >=
getConfidenceClassAbove(confidence) ==
    LET value == IF confidence.kind = "number" THEN confidence ELSE JNum(0)
    IN  IF AtLeast(value, 81) THEN "high"
        ELSE IF AtLeast(value, 51) THEN "medium"
        ELSE "low"

\* UIUtils.getConfidenceClass(confidence); parseFloat of what is not a number
\* here (true, false, null, a text that is not a number) is NaN
getConfidenceClass(confidence) ==
    LET value == IF confidence.kind = "number" THEN confidence ELSE JNum(0)
    IN  IF AtLeast(value, 80) THEN "high"
        ELSE IF AtLeast(value, 50) THEN "medium"
        ELSE "low"

\* line 569 of Renderer.createTableRow: the class of the confidence bar of a row
confClass(item) == getConfidenceClass(OrZero(Get(item, "confidence")))

-----------------------------------------------------------------------------
(* Results page: Renderer *)

\* nothing is written in the header
NoHeader == [query |-> JUndefined, timestamp |-> JUndefined]

\* Renderer.renderHeader(results): the query written in #queryInfo after
\* 'Query: ', and the instant whose formatted date is written in #timestamp
renderHeader(store, results, clock) ==
    LET queryInfo == getQueryInfo(store, results, clock)
    IN  [query |-> queryInfo.query, timestamp |-> queryInfo.timestamp]

\* the single row of the empty table, lines 511-522
PlaceholderRow == [kind |-> "placeholder"]

\* a test of the length that never finds 0
LengthIsZeroNever(list) == FALSE

\* results.length === 0
LengthIsZero(list) ==
    \/ list.kind = "array" /\ Len(list.items) = 0
    \/ list.kind = "object" /\ Get(list, "length") = JNum(0)

\* Renderer.createTableRow(item) throws a TypeError: item is null (line 554), or
\* item.type is truthy and has no toLowerCase (line 561)
RowThrows(item) ==
    \/ item.kind = "null"
    \/ Truthy(Get(item, "type")) /\ Get(item, "type").kind # "string"

\* the rows forEach appends before createTableRow throws, or all of them
RECURSIVE RowsAppended(_)
RowsAppended(items) ==
    IF items = <<>> \/ RowThrows(Head(items)) THEN <<>>
    ELSE <<Head(items)>> \o RowsAppended(Tail(items))

\* Renderer.renderTable(list): the rows of #tableBody afterwards, and whether
\* it threw
renderTable(list) ==
    IF ~Truthy(list) \/ LengthIsZero(list)
    THEN [rows |-> <<PlaceholderRow>>, threw |-> FALSE]
    ELSE IF list.kind # "array"
    \* results.forEach is not a function
    THEN [rows |-> <<>>, threw |-> TRUE]
    ELSE [rows |-> RowsAppended(list.items),
          threw |-> \E k \in 1..Len(list.items) : RowThrows(list.items[k])]

\* Renderer.renderAll(results) for validated results: the views rendered, the
\* rows of the table, and whether it threw.  renderHeader, renderAnalytics and
\* renderSummary do not throw on validated results; renderChart catches its own
\* errors and draws on a canvas that is not modelled.
renderAll(results) ==
    LET table == renderTable(Get(results, "results"))
        before == {"header", "statistics", "risk", "summary"}
    IN  [views |-> IF table.threw THEN before ELSE before \cup {"table"},
         rows |-> table.rows,
         threw |-> table.threw]

-----------------------------------------------------------------------------
(* Results page: ExportManager.  A text is a sequence of pieces: the quote, the *)
(* comma and the line break are pieces of their own, and every other piece is  *)
(* text free of these three characters.                                        *)

\* parts.join(sep)
RECURSIVE Join(_, _)
Join(parts, sep) ==
    IF parts = <<>> THEN <<>>
    ELSE IF Len(parts) = 1 THEN parts[1]
    ELSE parts[1] \o <<sep>> \o Join(Tail(parts), sep)

\* String(n) for the number n hundredths
Numeral(n) ==
    LET a == IF n < 0 THEN 0 - n ELSE n
        frac == a % 100
    IN  (IF n < 0 THEN "-" ELSE "") \o ToString(a \div 100) \o
        (IF frac = 0 THEN ""
         ELSE IF frac % 10 = 0 THEN "." \o ToString(frac \div 10)
         ELSE IF frac < 10 THEN ".0" \o ToString(frac)
         ELSE "." \o ToString(frac))

\* String(v), what a template literal makes of v
RECURSIVE Text(_)
Text(v) ==
    CASE v.kind = "string" ->
            IF "chars" \in DOMAIN v THEN v.chars
            ELSE IF "s" \in DOMAIN v THEN (IF v.s = "" THEN <<>> ELSE <<v.s>>)
            ELSE <<"ISO-8601">>
      [] v.kind = "number" -> <<IF "inf" \in DOMAIN v THEN "Infinity" ELSE Numeral(v.n)>>
      [] v.kind = "boolean" -> <<IF v.b THEN "true" ELSE "false">>
      [] v.kind = "array" ->
            Join([k \in 1..Len(v.items) |->
                    IF v.items[k].kind \in {"null", "undefined"} THEN <<>>
                    ELSE Text(v.items[k])], ",")
      [] v.kind = "object" -> <<"[object Object]">>
      [] OTHER -> <<v.kind>>

\* v || 'text', as a text
OrDefault(v, default) == IF Truthy(v) THEN Text(v) ELSE <<default>>

\* Math.round((confidence || 0) * 100) + '%'
Percent(confidence) ==
    LET c == OrZero(confidence)
    IN  CASE c.kind = "number" ->
                IF "inf" \in DOMAIN c THEN "Infinity%" ELSE ToString(c.n) \o "%"
          [] c.kind = "boolean" -> "100%"
          [] OTHER -> "NaN%"

\* line 714
CsvHeader == <<<<"Indicator">>, <<"Type">>, <<"Confidence">>, <<"Connections">>, <<"Source">>>>

\* lines 715-721: the cells of one indicator
csvCells(item) ==
    <<OrDefault(Get(item, "indicator"), "unknown"),
      OrDefault(Get(item, "type"), "unknown"),
      <<Percent(Get(item, "confidence"))>>,
      OrDefault(Get(item, "connections"), "0"),
      OrDefault(Get(item, "source"), "unknown")>>

\* lines 723-725: every cell between quotes, cells joined by commas, rows by
\* line breaks
csvText(rows) ==
    Join([k \in 1..Len(rows) |->
            Join([j \in 1..Len(rows[k]) |-> <<"\"">> \o rows[k][j] \o <<"\"">>], ",")],
         "\n")

NoFile == [type |-> "none"]

\* no export button has been clicked
NoExport == [button |-> "none", notification |-> "", file |-> NoFile]

\* downloadJSON that writes the indicator list only
downloadJSONResultsOnly(data) ==
    [notification |-> "Report downloaded successfully",
     file |-> [type |-> "application/json", content |-> Stringify(Get(data, "results"))]]

\* ExportManager.downloadJSON(data): the notification shown and the file downloaded
downloadJSON(data) ==
    [notification |-> "Report downloaded successfully",
     file |-> [type |-> "application/json", content |-> Stringify(data)]]

\* ExportManager.downloadCSV(results): the notification shown and the file
\* downloaded; results.map throws when results is not a list, and item.indicator
\* when an item is null
downloadCSV(results) ==
    IF ~Truthy(results) \/ LengthIsZero(results)
    THEN [notification |-> "No data to export", file |-> NoFile]
    ELSE IF results.kind # "array" \/ \E k \in 1..Len(results.items) : results.items[k].kind = "null"
    THEN [notification |-> "Failed to export table", file |-> NoFile]
    ELSE [notification |-> "Table exported to CSV",
          file |-> [type |-> "text/csv",
                    content |-> csvText(<<CsvHeader>> \o
                                   [k \in 1..Len(results.items) |-> csvCells(results.items[k])])]]

-----------------------------------------------------------------------------
(* Results page: initialize, the render callback and ErrorHandler *)

\* no results document is loaded.  results is the value initialize loaded and
\* handed to the render callback and the button handlers; lastExport is what
\* the last click on an export button did; header is what renderHeader wrote.
NoResultsPage ==
    [pc |-> "none", message |-> "", errorShown |-> FALSE, countdown |-> COUNTDOWN_START,
     seconds |-> COUNTDOWN_START, interval |-> FALSE, views |-> {}, rows |-> <<>>,
     buttonsWired |-> FALSE, redirects |-> 0, results |-> JUndefined,
     lastExport |-> NoExport, header |-> NoHeader]

\* the results document as loaded, before initialize has run
LoadingResults == [NoResultsPage EXCEPT !.pc = "loading"]

\* ErrorHandler.showErrorState(message) with autoRedirect, and startCountdown up
\* to the setInterval: the container is replaced by the error state, #countdown
\* shows 3, and the interval timer runs
showErrorState(r, message) ==
    [r EXCEPT !.pc = "error",
              !.message = message,
              !.errorShown = TRUE,
              !.views = {},
              !.rows = <<>>,
              !.countdown = COUNTDOWN_START,
              !.seconds = COUNTDOWN_START,
              !.interval = TRUE]

\* initialize() of results.js, run when the document is ready
InitializeResults ==
    /\ page = "results"
    /\ rs.pc = "loading"
    /\ rs' = IF ~hasResults(storage)
             THEN showErrorState(rs, "No analysis data found. Please run a new search.")
             ELSE LET results == loadResults(storage)
                      validation == validateResults(results)
                  IN  IF ~Truthy(results)
                      THEN showErrorState(rs, "Failed to load results. Please try again.")
                      ELSE IF ~validation.valid
                      THEN showErrorState(rs, validation.error)
                      ELSE [rs EXCEPT !.pc = "renderPending", !.results = results]
    /\ UNCHANGED <<probe, health, page, storage, now, submitSeq, formDisabled, loadingShown, calls,
                   navPending, lastNav>>

\* the callback of the timer of line 918: Renderer.renderAll(results), then
\* ButtonHandlers.initialize(results) unless renderAll threw
RenderCallback ==
    /\ page = "results"
    /\ rs.pc = "renderPending"
    /\ LET out == renderAll(rs.results)
       IN  rs' = [rs EXCEPT !.pc = IF out.threw THEN "renderThrew" ELSE "rendered",
                            !.views = out.views,
                            !.header = renderHeader(storage, rs.results, submitSeq + 1),
                            !.rows = out.rows,
                            !.buttonsWired = ~out.threw]
    /\ UNCHANGED <<probe, health, page, storage, now, submitSeq, formDisabled, loadingShown, calls,
                   navPending, lastNav>>

\* the test of line 874 written with < for <=
CountdownDoneLate(seconds) == seconds < 0

\* the test of line 874: the countdown is over after a tick that left this
\* many seconds
CountdownDone(seconds) == seconds <= 0

\* one tick of the interval timer of startCountdown, lines 867-878
CountdownTick ==
    /\ page = "results"
    /\ rs.interval
    /\ LET seconds == rs.seconds - 1
       IN  /\ rs' = [rs EXCEPT !.seconds = seconds,
                               !.countdown = seconds,
                               !.interval = ~CountdownDone(seconds),
                               !.redirects = IF CountdownDone(seconds) THEN @ + 1 ELSE @]
           /\ navPending' = IF CountdownDone(seconds)
                            THEN [to |-> "search", by |-> "countdown"]
                            ELSE navPending
    /\ UNCHANGED <<probe, health, page, storage, now, submitSeq, formDisabled, loadingShown, calls,
                   lastNav>>

\* a click on #downloadBtn, lines 765-767
ExportJSON ==
    /\ page = "results"
    /\ rs.buttonsWired
    /\ LET out == downloadJSON(rs.results)
       IN  rs' = [rs EXCEPT !.lastExport = [button |-> "downloadBtn",
                                            notification |-> out.notification,
                                            file |-> out.file]]
    /\ UNCHANGED <<probe, health, page, storage, now, submitSeq, formDisabled, loadingShown,
                   calls, navPending, lastNav>>

\* a click on #exportTableBtn, lines 773-775
ExportCSV ==
    /\ page = "results"
    /\ rs.buttonsWired
    /\ LET out == downloadCSV(Get(rs.results, "results"))
       IN  rs' = [rs EXCEPT !.lastExport = [button |-> "exportTableBtn",
                                            notification |-> out.notification,
                                            file |-> out.file]]
    /\ UNCHANGED <<probe, health, page, storage, now, submitSeq, formDisabled, loadingShown,
                   calls, navPending, lastNav>>

\* the user leaves the results page: the button of the error state (line 839),
\* #backBtn or #newSearchBtn (lines 781-793)
UserLeavesResults ==
    /\ page = "results"
    /\ rs.pc # "loading"
    /\ rs.errorShown \/ rs.buttonsWired
    /\ navPending' = [to |-> "search", by |-> "user"]
    /\ UNCHANGED <<probe, health, page, storage, now, submitSeq, formDisabled, loadingShown, calls,
                   lastNav, rs>>

-----------------------------------------------------------------------------
(* Navigation *)

NoNav == [to |-> "none", by |-> "none"]

\* the document assigned to window.location.href is loaded: the old document,
\* its timers and its pending handlers are gone
LoadPage ==
    /\ navPending # NoNav
    /\ page' = navPending.to
    /\ lastNav' = navPending.by
    /\ navPending' = NoNav
    /\ now' = 0
    /\ formDisabled' = FALSE
    /\ loadingShown' = FALSE
    /\ calls' = [i \in CallIds |-> NoCall]
    /\ rs' = IF navPending.to = "results" THEN LoadingResults ELSE NoResultsPage
    /\ health' = IF navPending.to = "search" THEN InitializeSearch ELSE NoHealth
    /\ UNCHANGED <<probe, storage, submitSeq>>

-----------------------------------------------------------------------------
(* Specifications *)

\* a result left in the storage by an earlier visit
StaleResult ==
    JObj([status |-> JStr("success"), analytics |-> Analytics,
          results |-> JArr(<<Indicator("9.9.9.9", 50)>>)])

\* no function has been called on its own
NoProbe == [fn |-> "none"]

\* the tab opens on this page with one of these storages
InitStorage(firstPage, stores) ==
    /\ page = firstPage
    /\ storage \in stores
    /\ now = 0
    /\ submitSeq = 0
    /\ formDisabled = FALSE
    /\ loadingShown = FALSE
    /\ calls = [i \in CallIds |-> NoCall]
    /\ navPending = NoNav
    /\ lastNav = "open"
    /\ rs = IF firstPage = "results" THEN LoadingResults ELSE NoResultsPage
    /\ probe = NoProbe
    /\ health = IF firstPage = "search" THEN InitializeSearch ELSE NoHealth

\* the tab opens on this page with one of these items under godeyeResults and
\* nothing else in the storage
InitWith(firstPage, items) ==
    InitStorage(firstPage,
                {[k \in StorageKeys |-> IF k = RESULTS_KEY THEN item ELSE NoItem] :
                    item \in items})

\* the tab opens on the search page
Init == InitWith("search", {NoItem, Stringify(StaleResult)})

SearchNext ==
    \/ \E raw \in QueryInputs, type \in QueryTypes : Submit(raw, type)
    \/ \E i \in CallIds : TimeoutFires(i)
    \/ \E i \in CallIds : FetchRejects(i)
    \/ \E i \in CallIds, ok \in BOOLEAN : \E statusText \in StatusTexts(ok) :
            FetchResolves(i, ok, statusText)
    \/ \E i \in CallIds, text \in BodyTexts : ErrorBodyArrives(i, text)
    \/ \E i \in CallIds, text \in BodyTexts : BodyArrives(i, text)
    \/ \E i \in CallIds : BodyFails(i)
    \/ \E i \in CallIds : MinWaitFires(i)
    \/ \E i \in CallIds : RedirectFires(i)
    \/ Tick

ResultsNext ==
    \/ InitializeResults
    \/ RenderCallback
    \/ CountdownTick
    \/ ExportJSON
    \/ ExportCSV
    \/ UserLeavesResults

Next == SearchNext \/ ResultsNext \/ LoadPage

Spec == Init /\ [][Next]_vars

\* timers fire, time passes and documents load; the backend and the user are
\* under no obligation
Fairness ==
    /\ WF_vars(Tick)
    /\ \A i \in CallIds : WF_vars(TimeoutFires(i))
    /\ \A i \in CallIds : WF_vars(MinWaitFires(i))
    /\ \A i \in CallIds : WF_vars(RedirectFires(i))
    /\ WF_vars(InitializeResults)
    /\ WF_vars(RenderCallback)
    /\ WF_vars(CountdownTick)
    /\ WF_vars(LoadPage)

FairSpec == Spec /\ Fairness

\* the tab opens on the results page, with anything in the storage
ResultsInit == InitWith("results", {NoItem} \cup BodyTexts)

ResultsPageNext == ResultsNext \/ LoadPage

ResultsSpec == ResultsInit /\ [][ResultsPageNext]_vars

ResultsFairSpec ==
    /\ ResultsSpec
    /\ WF_vars(InitializeResults)
    /\ WF_vars(RenderCallback)
    /\ WF_vars(CountdownTick)
    /\ WF_vars(LoadPage)

\* an indicator whose name is this text
Named(chars) ==
    JObj([indicator |-> JText(chars), type |-> JStr("domain"), confidence |-> JNum(79),
          connections |-> JNum(100), source |-> JStr("whois")])

\* stored results whose indicators try the CSV export
ExportLists ==
    { <<Indicator("1.1.1.1", 90), Indicator("2.2.2.2", 40)>>,
      <<>>,
      <<JObj([connections |-> JNum(0)]), Indicator("1.1.1.1", 100)>>,
      <<Named(<<"a", ",", "b">>)>>,
      <<Named(<<"a", "\n", "b">>)>>,
      <<Named(<<"a", "\"", "b">>)>>,
      <<Named(<<"x", "\"", ",", "\"", "y">>), Indicator("1.1.1.1", 90)>> }

ExportBodies ==
    {JObj([status |-> JStr("success"), analytics |-> Analytics, results |-> JArr(list)]) :
        list \in ExportLists}
    \cup {JObj([status |-> JStr("success"), analytics |-> Analytics,
                results |-> JObj([length |-> JNum(0)])])}

\* a search page in another tab of the same origin stores the result of its
\* search while this tab shows the results page
OtherPageStores(value) ==
    /\ page = "results"
    /\ storage' = StorageSet(storage, RESULTS_KEY, value, TRUE)[1]
    /\ UNCHANGED <<probe, health, page, now, submitSeq, formDisabled, loadingShown, calls,
                   navPending, lastNav, rs>>

\* the tab opens on the results page of a stored result
ExportInit == InitWith("results", {Stringify(v) : v \in ExportBodies})

ExportNext ==
    \/ ResultsNext
    \/ LoadPage
    \/ \E value \in SuccessBodies : OtherPageStores(value)

ExportSpec == ExportInit /\ [][ExportNext]_vars

\* the storages the header is rendered from: the result carries a query_info
\* (whole, or with an empty query) or none, and a timestamp or none, or is the
\* answer of a failed analysis, and the search parameters are stored or not
HeaderStores ==
    LET QueryInfos == {JUndefined, JNull,
                       JObj([query |-> JStr("example.com"), type |-> JStr("domain")]),
                       JObj([query |-> JStr(""), type |-> JStr("domain")])}
        Results == {JObj([status |-> JStr("success"), analytics |-> Analytics,
                          results |-> JArr(<<>>), query_info |-> info,
                          timestamp |-> stamp]) :
                        info \in QueryInfos, stamp \in {JUndefined, JDate(7)}}
                   \cup {JObj([status |-> JStr("error"), message |-> JStr("backend failed")])}
    IN  {[k \in StorageKeys |->
            CASE k = RESULTS_KEY -> Stringify(value)
              [] k = QUERY_KEY -> query
              [] k = TYPE_KEY -> IF query = NoItem THEN NoItem ELSE Stringify(JStr("ip"))
              [] OTHER -> IF query = NoItem THEN NoItem ELSE Stringify(JDate(1))] :
            value \in Results,
            query \in {NoItem, Stringify(JText(<<"8", ".", "8", ".", "8", ".", "8">>))}}

\* the tab opens on the results page of such a storage
HeaderSpec == InitStorage("results", HeaderStores) /\ [][ResultsPageNext]_vars

\* the search page with the events of the health check, which Spec leaves
\* pending: they change nothing but health.  The searches made meanwhile are
\* of two queries, answered with two bodies.
HealthNext ==
    \/ \E failure \in {"timeout", "network"} : HealthRequestFails(failure)
    \/ \E ok \in BOOLEAN : \E statusText \in StatusTexts(ok) :
            HealthFetchResolves(ok, statusText)
    \/ \E text \in HealthTexts : HealthBodyArrives(text)
    \/ \E raw \in {<<>>, <<"x", " ", "y">>} : Submit(raw, "auto")
    \/ \E i \in CallIds : TimeoutFires(i)
    \/ \E i \in CallIds : FetchRejects(i)
    \/ \E i \in CallIds, ok \in BOOLEAN : \E statusText \in StatusTexts(ok) :
            FetchResolves(i, ok, statusText)
    \/ \E i \in CallIds, text \in {Stringify(StaleResult), Garbage} :
            ErrorBodyArrives(i, text)
    \/ \E i \in CallIds, text \in {Stringify(StaleResult), Garbage} :
            BodyArrives(i, text)
    \/ \E i \in CallIds : BodyFails(i)
    \/ \E i \in CallIds : MinWaitFires(i)
    \/ \E i \in CallIds : RedirectFires(i)
    \/ Tick
    \/ InitializeResults
    \/ RenderCallback
    \/ UserLeavesResults
    \/ LoadPage

HealthSpec == InitWith("search", {NoItem}) /\ [][HealthNext]_vars

-----------------------------------------------------------------------------
(* Functions called on their own *)

pageVars == <<page, storage, now, submitSeq, formDisabled, loadingShown, calls,
              navPending, lastNav, rs, health>>

\* a query of exactly MAX_QUERY_LENGTH characters
FullQuery == [k \in 1..MAX_QUERY_LENGTH |-> "a"]

\* texts a query can be
ValidatorInputs ==
    QueryInputs \cup
    { <<"\t">>,
      FullQuery,
      <<" ">> \o FullQuery \o <<" ">>,
      <<"x">>,
      <<"8", ".", "8", ".", "8", ".", "8">>,
      <<"1", ".", "1", ".", "1", ".", "1", "0">>,
      <<"2", "5", "6", ".", "1", ".", "1", ".", "1", "0">>,
      <<"1", ".", "1", ".", "1">>,
      <<"a", "@", "b", ".", "c", "o">>,
      <<"a", "@", "b">>,
      <<"a", " ", "b", "@", "c", ".", "d">>,
      <<"e", "x", ".", "c", "o", "m">>,
      <<"E", "X", ".", "c", "o", "m", " ">>,
      <<"-", "a", ".", "c", "o", "m">>,
      <<"h", "t", "t", "p", ":", "/", "/", "a", ".", "b", "c">>,
      <<"h", "t", "t", "p", "s", ":", "/", "/", "w", "w", "w", ".", "a", ".", "b", "c",
        "/", "x", "?", "y", "=", "1">>,
      <<"h", "t", "t", "p", ":", "/", "/", "a", "@", "b", ".", "c", "o">>,
      <<"f", "t", "p", ":", "/", "/", "a", ".", "b", "c">>,
      <<"n", "o", "t", " ", "a", " ", "q", "!", "!">> }

\* values handed to StorageManager.set: responses, and objects that hold what
\* JSON has no notation for
RoundTripValues ==
    SuccessBodies \cup
    { JObj([status |-> JStr("error")]),
      JObj([status |-> JStr("success"),
            analytics |-> JObj([avg_confidence |-> JNum(0), total_entities |-> JNull]),
            summary |-> JText(<<"\"", ",", "\n">>),
            results |-> JArr(<<JArr(<<>>), JBool(FALSE), JStr(""), JNum(-150)>>)]),
      JObj([status |-> JStr("success"),
            analytics |-> JObj([avg_confidence |-> JInfinity]),
            results |-> JArr(<<>>)]),
      JObj([status |-> JStr("success"), analytics |-> JUndefined,
            results |-> JArr(<<JUndefined>>)]) }

\* StorageManager.set of app.js under godeyeResults, then DataManager.loadResults
\* of results.js on the storage it leaves
PersistThenLoad(value, ok) ==
    /\ LET set == StorageSet(storage, RESULTS_KEY, value, ok)
       IN  probe' = [fn |-> "persistThenLoad", input |-> value, stored |-> set[2],
                     output |-> loadResults(set[1])]
    /\ UNCHANGED pageVars

\* Validator.validateQuery(query, type)
Validate(query, type) ==
    /\ probe' = [fn |-> "validateQuery", query |-> query, type |-> type,
                 output |-> validateQuery(query, type)]
    /\ UNCHANGED pageVars

\* Validator.detectQueryType(query)
Detect(query) ==
    /\ probe' = [fn |-> "detectQueryType", query |-> query,
                 output |-> detectQueryType(query)]
    /\ UNCHANGED pageVars

\* confidence values: 0 to 1 in hundredths, and none
ConfidenceValues == {JNum(n) : n \in 0..100} \cup {JUndefined, JNull}

\* the risk level of analytics and the class of an indicator that carry the
\* same confidence
Classify(value) ==
    /\ probe' = [fn |-> "classify", value |-> value,
                 risk |-> riskLevel(JObj([avg_confidence |-> value])),
                 class |-> confClass(JObj([confidence |-> value]))]
    /\ UNCHANGED pageVars

\* APIClient.request on a response whose body arrives whole
Request(ok, statusText, text) ==
    /\ probe' = [fn |-> "request", ok |-> ok, statusText |-> statusText, text |-> text,
                 output |-> requestOutcome(ok, statusText, text)]
    /\ UNCHANGED pageVars

FunctionNext ==
    \/ \E ok \in BOOLEAN, statusText \in StatusTexts(FALSE),
          text \in BodyTexts \cup {Stringify(JObj([message |-> JStr("")])),
                                   Stringify(JObj([message |-> JNum(4200)]))} :
            Request(ok, statusText, text)
    \/ \E value \in ConfidenceValues : Classify(value)
    \/ \E value \in RoundTripValues, ok \in BOOLEAN : PersistThenLoad(value, ok)
    \/ \E query \in ValidatorInputs, type \in QueryTypes : Validate(query, type)
    \/ \E query \in ValidatorInputs : Detect(query)

\* the functions are called on a search page that does nothing else
FunctionInit == InitWith("search", {NoItem})

FunctionSpec == FunctionInit /\ [][FunctionNext]_vars

-----------------------------------------------------------------------------
(* Results page: the count-up animation of the statistics (UIUtils.animate-  *)
(* Counter, started by Renderer.renderAnalytics).  Numbers are in hundredths *)
(* as everywhere; the running value of a counter is kept as a numerator over *)
(* COUNTER_DURATION, so that the additions of the callback are exact.        *)

COUNTER_DURATION == 1000
COUNTER_INTERVAL == 16

\* UIUtils.animateCounter(element, 0, end, COUNTER_DURATION, suffix) up to the
\* setInterval: increment = end / (COUNTER_DURATION / 16), current = 0, and the
\* interval timer runs.  The element keeps the text of the markup until the
\* first callback.
animateCounter(end, suffix) ==
    [end |-> end, suffix |-> suffix, increment |-> end * COUNTER_INTERVAL,
     current |-> 0, running |-> TRUE, text |-> "markup"]

\* one callback of the interval timer, lines 189-197; Math.round(current) is
\* the integer nearest to current / (100 * COUNTER_DURATION), halves upwards
timerCallback(c) ==
    LET RoundCurrent(numerator) ==
            (numerator + 50 * COUNTER_DURATION) \div (100 * COUNTER_DURATION)
        sum == c.current + c.increment
        done == \/ c.increment > 0 /\ sum >= c.end * COUNTER_DURATION
                \/ c.increment < 0 /\ sum <= c.end * COUNTER_DURATION
        current == IF done THEN c.end * COUNTER_DURATION ELSE sum
    IN  [c EXCEPT !.current = current,
                  !.running = ~done,
                  !.text = ToString(RoundCurrent(current)) \o c.suffix]

\* the counters that Renderer.renderAnalytics(analytics) starts, lines 412-434:
\* #totalEntities, #avgConfidence (a percentage) and #sourceCount, in this
\* order.  NumberOrZero(v) is `v || 0` in hundredths for a v that is a number
\* or missing.
renderAnalytics(analytics) ==
    LET NumberOrZero(v) == IF Truthy(v) /\ v.kind = "number" THEN v.n ELSE 0
    IN
    IF ~Truthy(analytics) THEN <<>>
    ELSE << animateCounter(NumberOrZero(Get(analytics, "total_entities")), ""),
            animateCounter(NumberOrZero(Get(analytics, "avg_confidence")) * 100, "%"),
            animateCounter(NumberOrZero(Get(analytics, "source_count")), "") >>

\* the analytics of the results rendered: counts and an average confidence,
\* present or not
AnalyticsValues ==
    {JUndefined} \cup
    { JObj([total_entities |-> total, avg_confidence |-> JNum(confidence),
            source_count |-> JNum(sources)]) :
        total \in {JUndefined, JNum(0), JNum(300)}, confidence \in {0, 79},
        sources \in {0, 200} }

\* renderAll reaches renderAnalytics, once for a document
RenderAnalytics(analytics) ==
    /\ probe.fn = "none"
    /\ probe' = [fn |-> "renderAnalytics", analytics |-> analytics,
                 counters |-> renderAnalytics(analytics)]
    /\ UNCHANGED pageVars

\* COUNTER_INTERVAL ms have passed: the callbacks of the interval timers that
\* still run are called, in the order the timers were set
AnimationFrame ==
    /\ probe.fn = "renderAnalytics"
    /\ \E k \in DOMAIN probe.counters : probe.counters[k].running
    /\ probe' = [probe EXCEPT !.counters =
                    [k \in DOMAIN @ |-> IF @[k].running THEN timerCallback(@[k])
                                        ELSE @[k]]]
    /\ UNCHANGED pageVars

AnimationNext ==
    \/ \E analytics \in AnalyticsValues : RenderAnalytics(analytics)
    \/ AnimationFrame

\* the document stays open and its timers keep firing
AnimationSpec ==
    /\ FunctionInit
    /\ [][AnimationNext]_vars
    /\ WF_vars(AnimationFrame)

-----------------------------------------------------------------------------
(* Properties *)

Count(seq, x) == Cardinality({k \in 1..Len(seq) : seq[k] = x})

\* v is an object whose status is 'success'
SuccessObject(v) ==
    /\ v.kind = "object"
    /\ "status" \in DOMAIN v.fields
    /\ v.fields["status"] = JStr("success")

\* the field is there and is not null
Present(v, name) ==
    /\ name \in DOMAIN v.fields
    /\ v.fields[name].kind # "null"

\* C1: at most one search request is in flight at any time; from the submit
\* that disables the form until the form is enabled again or the page is left,
\* the form stays disabled and no other invocation of handleSubmit is alive.
C1_OneSearchInFlight ==
    /\ Cardinality({i \in CallIds : InFlight(calls[i])}) <= 1
    /\ \A i \in CallIds :
         ~Over(calls[i]) =>
            /\ formDisabled
            /\ \A j \in CallIds \ {i} : Over(calls[j])

\* a second search is in flight, after the first one failed and enabled the form
C1_SecondSearchInFlight ==
    /\ submitSeq = 2
    /\ \E i \in CallIds : calls[i].pc = "readingJson"

\* C2: once initialize has run on the results page, the render path is taken
\* exactly when the stored text exists, parses as JSON into an object whose
\* status is 'success' and has analytics and results present (there and not
\* null); otherwise the page is in the error state and nothing is rendered.
C2_RenderIffValid ==
    LET item == storage[RESULTS_KEY]
        renderable ==
            /\ item.kind = "json"
            /\ SuccessObject(item.of)
            /\ Present(item.of, "analytics")
            /\ Present(item.of, "results")
    IN  (page = "results" /\ rs.pc # "loading") =>
            /\ rs.pc \in {"renderPending", "rendered", "renderThrew"} <=> renderable
            /\ ~renderable =>
                  /\ rs.pc = "error"
                  /\ rs.errorShown
                  /\ rs.views = {}
                  /\ rs.rows = <<>>
                  /\ ~rs.buttonsWired

\* a stored result that is complete but has status 'error' has put the page in
\* the error state
C2_ErrorStatusInErrorState ==
    /\ page = "results"
    /\ rs.pc = "error"
    /\ storage[RESULTS_KEY] =
          Stringify(JObj([status |-> JStr("error"), analytics |-> Analytics,
                          results |-> JArr(<<>>)]))

\* C3: the search page changes the text stored under godeyeResults only to a
\* response whose status is 'success', and schedules the navigation only for
\* such a response; a body that is null or not of type object fails with
\* 'Invalid response format from server', and one of type object whose status
\* is not 'success' fails with its message or 'Analysis failed'.
C3_OnlySuccessStored ==
    /\ [][storage'[RESULTS_KEY] # storage[RESULTS_KEY] =>
             /\ storage'[RESULTS_KEY].kind = "json"
             /\ SuccessObject(storage'[RESULTS_KEY].of)]_vars
    /\ [](\A i \in CallIds :
            /\ calls[i].pc \in {"redirecting", "redirected"} =>
                  SuccessObject(calls[i].results)
            /\ (calls[i].pc = "failed" /\ calls[i].outcome = "data") =>
                  LET body == calls[i].results
                  IN  /\ body.kind \notin {"object", "array"} =>
                            calls[i].message = "Invalid response format from server"
                      /\ (body.kind \in {"object", "array"} /\ ~SuccessObject(body)) =>
                            calls[i].message \in {"Analysis failed", "backend failed",
                                                  "no status"})

\* a success response was stored and the navigation is scheduled
C3_SuccessStored ==
    \E i \in CallIds :
        /\ calls[i].pc = "redirecting"
        /\ storage[RESULTS_KEY] = Stringify(calls[i].results)
        /\ submitSeq = 2

\* C4: a validated submission that has failed has left the form enabled and the
\* loading overlay hidden, has shown exactly one error notification and no
\* success notification, and has scheduled no navigation.
C4_FailureRestoresForm ==
    \A i \in CallIds :
        calls[i].pc = "failed" =>
            /\ ~formDisabled
            /\ ~loadingShown
            /\ Count(calls[i].log, "notifyError") = 1
            /\ Count(calls[i].log, "notifySuccess") = 0
            /\ Count(calls[i].log, "scheduleNav") = 0
            /\ calls[i].timer = NoTimer
            /\ navPending = NoNav

\* a submission failed because the result could not be stored
C4_StorageWriteFailed ==
    \E i \in CallIds :
        /\ calls[i].pc = "failed"
        /\ calls[i].message = "Failed to store results. Check browser storage."

\* C5: a submit is rejected exactly when validateQuery rejects the trimmed
\* input, and a rejected submit only shows one error notification: the form
\* stays enabled, the loading overlay stays hidden, no request is started and
\* the storage is left as it was.
C5_RejectedSubmitOnlyNotifies ==
    /\ [](\A i \in CallIds :
            /\ calls[i].pc # "none" =>
                  (calls[i].pc = "rejected"
                      <=> ~validateQuery(calls[i].query, calls[i].type).valid)
            /\ calls[i].pc = "rejected" =>
                  /\ calls[i].log = <<"notifyError">>
                  /\ calls[i].outcome = "none"
                  /\ ~formDisabled
                  /\ ~loadingShown)
    /\ [][\A i \in CallIds :
            (calls'[i].pc = "rejected" /\ calls'[i] # calls[i]) =>
                /\ storage' = storage
                /\ submitSeq' = submitSeq
                /\ \A j \in CallIds : InFlight(calls'[j]) => InFlight(calls[j])]_vars

\* an input of the wrong format was rejected after an earlier search had
\* written its query to the storage
C5_FormatRejected ==
    \E i \in CallIds :
        /\ calls[i].pc = "rejected"
        /\ calls[i].message = "Invalid email format"
        /\ storage[QUERY_KEY] # NoItem

\* C6: the navigation to the results page is scheduled and made only by an
\* invocation that, in this order, sent the request, wrote its response under
\* godeyeResults and showed the success notification; it is made
\* REDIRECT_DELAY ms after the write, the stored text is then that response,
\* and no navigation is pending after a failed search.
C6_NavigateAfterPersistAndNotify ==
    /\ \A i \in CallIds :
         /\ calls[i].pc \in {"redirecting", "redirected"} =>
               /\ calls[i].log = <<"storeParams", "disableForm", "showLoading",
                                   "request", "persist", "notifySuccess", "scheduleNav">>
               /\ calls[i].outcome = "data"
               /\ SuccessObject(calls[i].results)
               /\ storage[RESULTS_KEY] = Stringify(calls[i].results)
         /\ calls[i].pc = "redirected" =>
               calls[i].navAt = calls[i].persistedAt + REDIRECT_DELAY
         /\ calls[i].pc = "failed" => navPending = NoNav
    /\ navPending.to = "results" =>
          /\ navPending.by = "redirect"
          /\ \E i \in CallIds : calls[i].pc = "redirected"
    /\ (page = "results" /\ lastNav = "redirect") =>
          /\ storage[RESULTS_KEY].kind = "json"
          /\ SuccessObject(storage[RESULTS_KEY].of)

\* the redirect timer has fired for a search that waited out the minimum
\* loading time
C6_Redirected ==
    \E i \in CallIds :
        /\ calls[i].pc = "redirected"
        /\ calls[i].persistedAt = LOADING_MIN_DURATION
        /\ navPending = [to |-> "results", by |-> "redirect"]

\* C7: no request is still in flight more than TIMEOUT ms after it was sent,
\* and a request that settles after TIMEOUT ms settles with the timeout error.
C7_TimeoutIsHard ==
    \A i \in CallIds :
        /\ InFlight(calls[i]) => now - calls[i].start <= TIMEOUT
        /\ calls[i].settledAt > TIMEOUT => calls[i].outcome = "timeout"

\* C8: every search that is submitting (request in flight, or waiting out the
\* minimum loading time) eventually fails or schedules the navigation.
C8_SubmittingEnds ==
    \A i \in CallIds :
        (InFlight(calls[i]) \/ calls[i].pc = "minWait")
            ~> (calls[i].pc \in {"failed", "redirecting", "redirected"})

\* C9: once the render callback has run, either every view is rendered and the
\* export buttons are wired, or the page shows the error state and no view.
C9_RenderAllOrNothing ==
    (page = "results" /\ rs.pc \in {"rendered", "renderThrew", "error"}) =>
        \/ /\ rs.views = {"header", "statistics", "risk", "summary", "table"}
           /\ rs.buttonsWired
           /\ ~rs.errorShown
        \/ /\ rs.errorShown
           /\ rs.views = {}

\* C10: in the error state the countdown shows COUNTDOWN_START at first, never
\* a negative number, and one less after each tick; the redirect to the search
\* page is made once, exactly when the countdown reaches 0, and the page is
\* always eventually left for the search page.
C10_CountdownRedirects ==
    /\ [](rs.errorShown =>
            /\ rs.countdown \in 0..COUNTDOWN_START
            /\ rs.countdown = rs.seconds
            /\ rs.redirects = (IF rs.countdown = 0 THEN 1 ELSE 0)
            /\ rs.interval <=> rs.countdown > 0
            /\ rs.countdown > 0 => navPending.by # "countdown")
    /\ [][/\ (~rs.errorShown /\ rs'.errorShown) => rs'.countdown = COUNTDOWN_START
          /\ (rs.errorShown /\ rs'.errorShown /\ rs'.countdown # rs.countdown) =>
                rs'.countdown = rs.countdown - 1
          /\ (navPending'.by = "countdown" /\ navPending.by # "countdown") =>
                rs'.countdown = 0 /\ navPending'.to = "search"]_vars
    /\ rs.errorShown ~> (page = "search" /\ lastNav \in {"countdown", "user"})

\* the countdown has reached 0 and made its redirect
C10_CountdownAtZero ==
    /\ rs.errorShown
    /\ rs.countdown = 0
    /\ rs.redirects = 1
    /\ navPending = [to |-> "search", by |-> "countdown"]

\* C11: the text stored under godeyeResults changes only when a search
\* succeeds, and is then the serialized response of that search and nothing
\* else, whatever was stored before; so it is always the response of the most
\* recent successful search.
C11_StoredIsLatestSuccess ==
    /\ [](\A i \in CallIds :
            calls[i].pc \in {"redirecting", "redirected"} =>
                storage[RESULTS_KEY] = Stringify(calls[i].results))
    /\ [][/\ storage'[RESULTS_KEY] # storage[RESULTS_KEY] =>
                \E i \in CallIds :
                    /\ calls[i].pc \notin {"redirecting", "redirected"}
                    /\ calls'[i].pc = "redirecting"
          /\ \A i \in CallIds :
                (calls[i].pc # "redirecting" /\ calls'[i].pc = "redirecting") =>
                    storage'[RESULTS_KEY] = Stringify(calls'[i].results)]_vars

\* back on the search page after a first successful search, a second search
\* has succeeded and its response has taken the place of the first one
C11_SecondResultReplacesFirst ==
    /\ page = "search"
    /\ lastNav \in {"user", "countdown"}
    /\ submitSeq = 2
    /\ \E i \in CallIds :
          /\ calls[i].pc = "redirecting"
          /\ storage[RESULTS_KEY] = Stringify(calls[i].results)

\* v is a value JSON has a notation for: no undefined and no number that is not
\* finite, at any depth
RECURSIVE IsJSONValue(_)
IsJSONValue(v) ==
    CASE v.kind = "object" -> \A f \in DOMAIN v.fields : IsJSONValue(v.fields[f])
      [] v.kind = "array" -> \A k \in 1..Len(v.items) : IsJSONValue(v.items[k])
      [] v.kind = "number" -> "inf" \notin DOMAIN v
      [] v.kind = "undefined" -> FALSE
      [] OTHER -> TRUE

C13_TypedRequestMatchesFormat ==
    \A i \in CallIds :
        LET c == calls[i]
        IN  /\ (c.pc \notin {"none", "rejected"} /\ c.type # "auto") =>
                    PatternTest(c.type, c.query)
            /\ (c.pc # "none" /\ c.type # "auto" /\ ~PatternTest(c.type, c.query)) =>
                    /\ c.pc = "rejected"
                    /\ Count(c.log, "request") = 0

\* a request of type ip is in flight for a query that is an IPv4 address
C13_IpRequestInFlight ==
    \E i \in CallIds :
        /\ calls[i].pc = "fetching"
        /\ calls[i].type = "ip"
        /\ calls[i].query = <<"8", ".", "8", ".", "8", ".", "8">>

\* the inputs, trimmed
TrimmedInput == [raw \in QueryInputs |-> Trim(raw)]

\* C14: a submit is rejected with the first failure in the order EmptyQuery
\* (trimmed length 0), TooLong (trimmed length over MAX_QUERY_LENGTH),
\* FormatMismatch (a type with a pattern that the trimmed query does not
\* match); otherwise the trimmed query is the query sent and the value
\* written under lastQuery (which keeps its old value only when localStorage
\* refuses the write).
C14_ValidationOrder ==
    [][(page = "search" /\ ~formDisabled /\ calls' # calls) =>
         \A raw \in QueryInputs, type \in QueryTypes :
            \* the step is the submit of raw with this type
            (/\ \E i \in CallIds : /\ calls'[i] # calls[i]
                                    /\ calls'[i].type = type
                                    /\ calls'[i].query = TrimmedInput[raw]
             /\ Submit(raw, type)) =>
               LET t == TrimmedInput[raw]
               IN  \E i \in CallIds :
                      /\ calls'[i] # calls[i]
                      /\ IF Len(t) = 0
                         THEN /\ calls'[i].pc = "rejected"
                              /\ calls'[i].message \in {"Query must be a non-empty string",
                                                        "Query cannot be empty"}
                         ELSE IF Len(t) > MAX_QUERY_LENGTH
                         THEN /\ calls'[i].pc = "rejected"
                              /\ calls'[i].message = "Query is too long (max 500 characters)"
                         ELSE IF type # "auto" /\ ~PatternTest(type, t)
                         THEN /\ calls'[i].pc = "rejected"
                              /\ calls'[i].message = InvalidFormat(type)
                         ELSE /\ calls'[i].pc = "fetching"
                              /\ calls'[i].query = t
                              /\ calls'[i].type = type
                              /\ storage'[QUERY_KEY] \in {Stringify(JText(t)),
                                                         storage[QUERY_KEY]}]_vars

\* a padded query was sent trimmed and is stored trimmed under lastQuery
C14_TrimmedQuerySentAndStored ==
    \E i \in CallIds :
        /\ calls[i].pc = "fetching"
        /\ calls[i].type = "auto"
        /\ calls[i].query = <<"8", ".", "8", ".", "8", ".", "8">>
        /\ storage[QUERY_KEY] = Stringify(JText(calls[i].query))

\* C15 as stated: with type auto, validateQuery accepts every string of 1 to
\* MAX_QUERY_LENGTH characters.
C15_AutoAcceptsNonEmpty ==
    (/\ probe.fn = "validateQuery"
     /\ probe.type = "auto"
     /\ Len(probe.query) \in 1..MAX_QUERY_LENGTH) =>
        probe.output.valid

\* C15: with type auto, validateQuery accepts a string exactly when what is
\* left of it after trimming has 1 to MAX_QUERY_LENGTH characters, whatever
\* its format, and returns it trimmed.
C15_AutoAcceptsTrimmedNonEmpty ==
    (probe.fn = "validateQuery" /\ probe.type = "auto") =>
        /\ probe.output.valid <=> Len(Trim(probe.query)) \in 1..MAX_QUERY_LENGTH
        /\ probe.output.valid => probe.output.query = Trim(probe.query)

\* with type auto, a text that matches none of the patterns was accepted
C15_UnformattedAccepted ==
    /\ probe.fn = "validateQuery"
    /\ probe.type = "auto"
    /\ probe.query = <<"n", "o", "t", " ", "a", " ", "q", "!", "!">>
    /\ \A t \in PatternTypes : ~PatternTest(t, probe.query)
    /\ probe.output.valid

\* the order in which detectQueryType tries the patterns
DetectOrder == <<"ip", "email", "domain", "url">>

\* C16: detectQueryType returns the first type, in the order ip, email, domain,
\* url, whose pattern the query matches, and 'unknown' when it matches none.
C16_DetectFirstMatch ==
    probe.fn = "detectQueryType" =>
        LET matching == {k \in 1..Len(DetectOrder) : PatternTest(DetectOrder[k], probe.query)}
        IN  probe.output =
                IF matching = {} THEN "unknown"
                ELSE DetectOrder[CHOOSE k \in matching : \A j \in matching : k <= j]

\* an IPv4 address that also matches the domain pattern was detected as ip
C16_IpBeforeDomain ==
    /\ probe.fn = "detectQueryType"
    /\ PATTERN_IP(probe.query)
    /\ PATTERN_DOMAIN(probe.query)
    /\ probe.output = "ip"

\* C17: for a confidence from 0 to 1, the risk level and the class of an
\* indicator are High / high from 0.8 on, Medium / medium from 0.5 on and
\* below 0.8, and Low / low below 0.5 and for a value that is absent.
C17_SameThresholds ==
    probe.fn = "classify" =>
        LET n == IF probe.value.kind = "number" THEN probe.value.n ELSE 0
        IN  <<probe.risk, probe.class>> =
                IF n >= 80 THEN <<"High", "high">>
                ELSE IF n >= 50 THEN <<"Medium", "medium">>
                ELSE <<"Low", "low">>

\* 0.8 was classified High and high
C17_EightTenthsIsHigh ==
    /\ probe.fn = "classify"
    /\ probe.value = JNum(80)
    /\ probe.risk = "High"
    /\ probe.class = "high"

\* A reader of CSV (RFC 4180): a cell between quotes may hold commas and line
\* breaks, and a quote in it is written twice.  The records read from the text
\* from its piece k on, and whether the text is well formed; mode is where the
\* reader is: at the start of a cell, in a bare cell, in a quoted cell, or
\* after a quote met in a quoted cell.
RECURSIVE ReadCSV(_, _, _, _, _, _, _)
ReadCSV(text, k, mode, cell, row, rows, ok) ==
    IF k > Len(text)
    THEN [records |-> Append(rows, Append(row, cell)),
          wellFormed |-> ok /\ mode # "quoted"]
    ELSE LET t == text[k]
         IN  IF mode = "quoted"
             THEN IF t = "\"" THEN ReadCSV(text, k + 1, "closing", cell, row, rows, ok)
                  ELSE ReadCSV(text, k + 1, "quoted", Append(cell, t), row, rows, ok)
             ELSE IF t = ","
             THEN ReadCSV(text, k + 1, "start", <<>>, Append(row, cell), rows, ok)
             ELSE IF t = "\n"
             THEN ReadCSV(text, k + 1, "start", <<>>, <<>>, Append(rows, Append(row, cell)), ok)
             ELSE IF t = "\""
             THEN IF mode = "start" THEN ReadCSV(text, k + 1, "quoted", cell, row, rows, ok)
                  ELSE IF mode = "closing"
                  THEN ReadCSV(text, k + 1, "quoted", Append(cell, t), row, rows, ok)
                  ELSE ReadCSV(text, k + 1, "bare", Append(cell, t), row, rows, FALSE)
             ELSE ReadCSV(text, k + 1, "bare", Append(cell, t), row, rows,
                          ok /\ mode # "closing")

\* the cell the claim asks for: the text of the field, or the default when the
\* field is absent
CellOf(item, name, default) ==
    IF Present(item, name) THEN Text(item.fields[name]) ELSE <<default>>

\* C18: the file that the CSV export of a list of N >= 1 indicators downloads
\* reads as N + 1 records of five cells: the header, then for each indicator,
\* in the order of the list, its indicator, type, confidence in percent,
\* connections and source, with "unknown", 0% and 0 for what is absent.
C18_CsvRecords ==
    LET list == Get(rs.results, "results")
        export == rs.lastExport
    IN  (/\ page = "results"
         /\ export.button = "exportTableBtn"
         /\ list.kind = "array"
         /\ Len(list.items) >= 1) =>
            /\ export.file # NoFile
            /\ LET read == ReadCSV(export.file.content, 1, "start", <<>>, <<>>, <<>>, TRUE)
               IN  /\ read.wellFormed
                   /\ Len(read.records) = Len(list.items) + 1
                   /\ read.records[1] = CsvHeader
                   /\ \A k \in 1..Len(list.items) :
                         LET item == list.items[k]
                         IN  read.records[k + 1] =
                                <<CellOf(item, "indicator", "unknown"),
                                  CellOf(item, "type", "unknown"),
                                  <<IF Present(item, "confidence")
                                    THEN ToString(item.fields["confidence"].n) \o "%"
                                    ELSE "0%">>,
                                  CellOf(item, "connections", "0"),
                                  CellOf(item, "source", "unknown")>>

\* C19: a click on the CSV export button, which is wired only once the page is
\* rendered, for a list that is empty or absent shows 'No data to export' and
\* downloads no file.
C19_EmptyListExportsNothing ==
    LET list == Get(rs.results, "results")
        export == rs.lastExport
    IN  /\ export # NoExport => (page = "results" /\ rs.pc = "rendered" /\ rs.buttonsWired)
        /\ (/\ page = "results"
            /\ export.button = "exportTableBtn"
            /\ \/ list.kind \in {"undefined", "null"}
               \/ list.kind = "array" /\ Len(list.items) = 0) =>
                /\ export.notification = "No data to export"
                /\ export.file = NoFile

\* the CSV export of an empty list was asked for
C19_EmptyListExportAsked ==
    /\ page = "results"
    /\ rs.lastExport = [button |-> "exportTableBtn",
                        notification |-> "No data to export", file |-> NoFile]
    /\ Get(rs.results, "results") = JArr(<<>>)

\* C20 as stated: the document that a click on the download button exports
\* parses to the payload stored under godeyeResults at the time of the click.
C20_ExportIsStoredPayload ==
    [][(rs'.lastExport # rs.lastExport /\ rs'.lastExport.button = "downloadBtn") =>
          /\ storage[RESULTS_KEY].kind = "json"
          /\ JSONParse(rs'.lastExport.file.content) = JSONParse(storage[RESULTS_KEY])]_vars

\* C20: the document that a click on the download button exports parses to the
\* payload that initialize loaded from godeyeResults when the page was opened,
\* which the page keeps and displays whatever is stored afterwards.
C20_ExportIsLoadedPayload ==
    /\ [](rs.lastExport.button = "downloadBtn" =>
            /\ rs.lastExport.notification = "Report downloaded successfully"
            /\ rs.lastExport.file.type = "application/json"
            /\ JSONParse(rs.lastExport.file.content) = <<TRUE, rs.results>>)
    /\ [][/\ (rs.pc = "loading" /\ rs'.pc = "renderPending") =>
                <<TRUE, rs'.results>> = JSONParse(storage[RESULTS_KEY])
          /\ (rs.pc \in {"renderPending", "rendered", "renderThrew"} /\ page' = "results") =>
                rs'.results = rs.results]_vars

\* the payload was exported after another page had stored a different result
C20_ExportedAfterOtherPageStored ==
    /\ page = "results"
    /\ rs.lastExport.button = "downloadBtn"
    /\ JSONParse(rs.lastExport.file.content) = <<TRUE, rs.results>>
    /\ storage[RESULTS_KEY] # Stringify(rs.results)

\* C21: healthCheck never lets a failure through: whenever the request of the
\* health check has failed (timeout, network error, non-2xx status, body that
\* is not JSON), its promise is fulfilled with {status: 'unhealthy'}, and it is
\* never rejected; the submit handler is attached whatever the health check
\* does, a search can be submitted while the health check is pending or
\* unhealthy, and the events of the health check change nothing of the form,
\* the searches or the storage.
C21_HealthCheckNeverPropagates ==
    /\ [](/\ health.settled # "rejected"
          /\ (health.pc = "settled" /\ health.failure # "none") =>
                /\ health.settled = "fulfilled"
                /\ health.value = Unhealthy
          /\ page = "search" => health.formInitialized
          /\ (page = "search" /\ ~formDisabled /\ submitSeq < MaxSubmits) =>
                ENABLED Submit(<<"x", " ", "y">>, "auto"))
    /\ [][(health' # health /\ page' = page) =>
            UNCHANGED <<storage, formDisabled, loadingShown, calls, navPending>>]_vars

\* a search is in flight on a page whose health check failed with a timeout
C21_SearchWhileUnhealthy ==
    /\ health.failure = "timeout"
    /\ health.value = Unhealthy
    /\ \E i \in CallIds : calls[i].pc = "readingJson"

C23_HeaderPrefersQueryInfo ==
    (page = "results" /\ "header" \in rs.views) =>
        LET info == Get(rs.results, "query_info")
            carried == IF info.kind = "object" THEN Get(info, "query") ELSE JUndefined
            stored == StorageGet(storage, QUERY_KEY)
        IN  rs.header.query = IF Truthy(carried) THEN carried
                              ELSE IF Truthy(stored) THEN stored
                              ELSE JStr("Unknown")

\* C24: once renderTable has run, the table body holds one row per indicator
\* of the stored list, in the order of the list, and the single placeholder
\* row for an empty list; it is never left empty.
C24_OneRowPerIndicator ==
    (page = "results" /\ rs.pc \in {"rendered", "renderThrew"}) =>
        LET list == Get(rs.results, "results")
        IN  /\ rs.rows # <<>>
            /\ list.kind = "array" =>
                  rs.rows = IF Len(list.items) = 0 THEN <<PlaceholderRow>>
                            ELSE list.items

C26_NonOkFailsWithMessageOrStatus ==
    probe.fn = "request" =>
        LET parsed == JSONParse(probe.text)
            carried == IF parsed[1] /\ parsed[2].kind = "object"
                       THEN Get(parsed[2], "message") ELSE JUndefined
        IN  /\ probe.output.returned => probe.ok
            /\ ~probe.ok =>
                  /\ ~probe.output.returned
                  /\ probe.output.message =
                        IF Truthy(carried) THEN MessageText(carried)
                        ELSE HttpStatusMessage(probe.statusText)

\* C26, amended: request returns data exactly for a 2xx response whose body is
\* JSON, and that data is the parsed body; a non-2xx response fails with the
\* message field of a body that parses as JSON and carries one, with the body
\* text itself when the body is not JSON and not empty, with the status text
\* alone when the body is empty and the status text is not, with a TypeError
\* when the body is the JSON value null, and with 'HTTP <status>: <statusText>'
\* in every other case.
C26_NonOkFailsWithMessageBodyOrStatus ==
    probe.fn = "request" =>
        LET parsed == JSONParse(probe.text)
            carried == IF parsed[1] /\ parsed[2].kind = "object"
                       THEN Get(parsed[2], "message") ELSE JUndefined
        IN  /\ probe.output.returned <=> (probe.ok /\ parsed[1])
            /\ probe.output.returned => probe.output.data = parsed[2]
            /\ ~probe.ok =>
                  probe.output.message =
                    CASE Truthy(carried) -> MessageText(carried)
                      [] probe.text = Garbage -> "errorText"
                      [] probe.text = EmptyText /\ probe.statusText # "" -> probe.statusText
                      [] probe.text = Stringify(JNull) ->
                            "TypeError: Cannot read properties of null"
                      [] OTHER -> HttpStatusMessage(probe.statusText)

\* a non-2xx response whose body is not JSON failed with that body as message
C26_TextBodyIsTheMessage ==
    /\ probe.fn = "request"
    /\ ~probe.ok
    /\ probe.text = Garbage
    /\ probe.statusText = "Internal Server Error"
    /\ probe.output.message = "errorText"

\* C27: every statistics counter animation terminates: each counter that was
\* started has, after finitely many ticks, its interval timer cleared and shows
\* its target exactly; no animation timer runs forever.
C27_EveryCounterStops ==
    \A k \in 1..3 :
        (probe.fn = "renderAnalytics" /\ k \in DOMAIN probe.counters)
            ~> /\ probe.fn = "renderAnalytics"
               /\ k \in DOMAIN probe.counters
               /\ ~probe.counters[k].running
               /\ probe.counters[k].text =
                     ToString(probe.counters[k].end \div 100) \o probe.counters[k].suffix

\* C28: every response the search page accepts as a success (stored under
\* godeyeResults, navigation to the results view made) is accepted by the
\* results page: initialize, run on the document that this navigation loaded,
\* takes the render path and never shows the error state.
C28_RedirectedResultRenders ==
    (page = "results" /\ lastNav = "redirect" /\ rs.pc # "loading")
        => rs.pc \in {"renderPending", "rendered", "renderThrew"}

\* C29: whenever godeyeResults holds a result, the persisted lastQuery,
\* lastQueryType and lastSearchTimestamp are those of the search that produced
\* it: they are the parameters of the search whose result was just stored, and
\* they are not the parameters of a search that has failed.
C29_StoredParamsBelongToResult ==
    \A i \in CallIds :
        /\ (calls[i].pc \in {"redirecting", "redirected"} /\ storage[RESULTS_KEY] # NoItem)
              => /\ storage[QUERY_KEY] = Stringify(JText(calls[i].query))
                 /\ storage[TYPE_KEY] = Stringify(JStr(calls[i].type))
                 /\ storage[TIMESTAMP_KEY] = Stringify(JDate(calls[i].stamp))
        /\ (calls[i].pc = "failed" /\ storage[RESULTS_KEY] # NoItem)
              => storage[TIMESTAMP_KEY] # Stringify(JDate(calls[i].stamp))

\* C30: a search that fails for any reason (validation failure, request error
\* or timeout, invalid response shape, status not 'success', storage write
\* failure) leaves the item under godeyeResults exactly as it was before the
\* submit, so the results page loads from it what it loaded before.
C30_FailedSearchKeepsStoredResult ==
    \A i \in CallIds :
        calls[i].pc \in {"failed", "rejected"} =>
            /\ storage[RESULTS_KEY] = calls[i].storedBefore
            /\ loadResults(storage) =
                  loadResults([storage EXCEPT ![RESULTS_KEY] = calls[i].storedBefore])

\* the write of a fresh result was refused while an earlier result was stored
C30_WriteRefusedOverStoredResult ==
    \E i \in CallIds :
        /\ calls[i].pc = "failed"
        /\ calls[i].message = "Failed to store results. Check browser storage."
        /\ calls[i].storedBefore = Stringify(StaleResult)
        /\ storage[RESULTS_KEY] = Stringify(StaleResult)
====
